---- MODULE Spec2Model ----
(***************************************************************************)
(* x402 marketplace: the contract trio (MockUSDC token, X402ServiceRegistry,*)
(* X402Escrow, X402PaymentProcessor) and the gateway's HTTP handlers that   *)
(* verify and settle EIP-3009 authorizations through them.                  *)
(***************************************************************************)
EXTENDS Integers, Sequences, FiniteSets, TLC

(***************************************************************************)
(* Bounds of the model                                                      *)
(***************************************************************************)
MaxTime == 2
InitialBalance == 120

(***************************************************************************)
(* Addresses, identifiers and input sets                                    *)
(***************************************************************************)
ZERO == "0x0"
GARBAGE == "0xGarbage"
ESCROW_ADDRESS == "Escrow"
PAYMENT_PROCESSOR_ADDRESS == "Processor"
RELAYER == "Relayer"
TREASURY == "Treasury"
Payers == {"A", "B"}
Providers == {"P1", "P2"}
Accounts == Payers \cup Providers \cup {ESCROW_ADDRESS, PAYMENT_PROCESSOR_ADDRESS, RELAYER, TREASURY}
Callers == {RELAYER, "P1", "A"}
Claimants == Providers \cup {"A"}
ServiceIds == {"s1", "s2"}
RequestIds == {"r1", "r2"}
UNIT == 20
FeePercents == {0, 21}
ProviderOf(sid) == IF sid = "s1" THEN "P1" ELSE "P2"
TypeOf(sid) == IF sid = "s1" THEN "HOSTED" ELSE "PROXY"

VARIABLES
    now,                 \* block.timestamp / Date.now() in seconds
    balances,            \* MockUSDC (ERC20) balances
    authorizationStates, \* MockUSDC._authorizationStates, as a set of <<from, nonce>>
    usedNonces,          \* X402PaymentProcessor.usedNonces, as a set of nonces
    services,            \* X402ServiceRegistry.services, keyed by bytes32 id
    providerBalances,    \* X402Escrow.providerBalances
    totalEarned,         \* X402Escrow.totalEarned
    totalClaimed,        \* X402Escrow.totalClaimed
    platformFeePercent,  \* X402Escrow.platformFeePercent
    platformTreasury,    \* X402Escrow.platformTreasury
    escrowOwner,         \* X402Escrow.owner()
    paymentProcessed,    \* PaymentProcessed events emitted so far
    dbServices,          \* prisma Service table
    accessLog,           \* prisma AccessLog table
    totalEarnings,       \* prisma Provider.totalEarnings, by provider id
    claimedAmount,       \* prisma Provider.claimedAmount, by provider id
    last,                \* the last operation: transaction or HTTP exchange, with its outcome
    inflight             \* the requests being handled concurrently, each with its position

chainVars == <<balances, authorizationStates, usedNonces, services, providerBalances,
               totalEarned, totalClaimed, platformFeePercent, platformTreasury, escrowOwner,
               paymentProcessed>>
dbVars == <<dbServices, accessLog, totalEarnings, claimedAmount>>
vars == <<now, balances, authorizationStates, usedNonces, services, providerBalances,
          totalEarned, totalClaimed, platformFeePercent, platformTreasury, escrowOwner,
          paymentProcessed,
          dbServices, accessLog, totalEarnings, claimedAmount, last, inflight>>

(***************************************************************************)
(* EIP-712 signatures: a signature is the signing key with the digest it    *)
(* was made over; recovery over another digest yields an unrelated address. *)
(***************************************************************************)
Digest(from, to, value, validAfter, validBefore, nonce) ==
    <<from, to, value, validAfter, validBefore, nonce>>

Sign(key, digest) == [key |-> key, digest |-> digest]

Recover(digest, sig) == IF sig.digest = digest THEN sig.key ELSE GARBAGE

\* A signature tuple as a client sends it: the six fields and (v, r, s) made by
\* key k over exactly those fields.
Auth(f, t, v, va, vb, n, k) ==
    [from |-> f, to |-> t, value |-> v, validAfter |-> va, validBefore |-> vb,
     nonce |-> n, sig |-> Sign(k, Digest(f, t, v, va, vb, n))]

OtherPayer(f) == IF f = "A" THEN "B" ELSE "A"

\* The (payer, nonce) pairs clients sign with, each with the value it pays
AuthKeys == {<<"A", "n1", UNIT>>, <<"B", "n1", 5 * UNIT + 1>>, <<"B", "n2", 5 * UNIT + 1>>}

\* The well-formed authorizations: to the escrow, signed by the payer, open window
GoodAuths ==
    { Auth(k[1], ESCROW_ADDRESS, k[3], 0, MaxTime + 1, k[2], k[1]) : k \in AuthKeys }

\* The keys whose authorizations are also sent with a field off
DeviationKeys == { k \in AuthKeys : k[2] = "n1" }

\* The authorizations clients send: the well-formed ones and, for the first nonce of
\* each payer, the same with one field off: destination, value, window start,
\* window end, signing key
Auths ==
    GoodAuths
    \cup { Auth(k[1], PAYMENT_PROCESSOR_ADDRESS, k[3], 0, MaxTime + 1, k[2], k[1]) : k \in DeviationKeys }
    \cup { Auth(k[1], ESCROW_ADDRESS, UNIT - 1, 0, MaxTime + 1, k[2], k[1]) : k \in DeviationKeys }
    \cup { Auth(k[1], ESCROW_ADDRESS, k[3], 1, MaxTime + 1, k[2], k[1]) : k \in DeviationKeys }
    \cup { Auth(k[1], ESCROW_ADDRESS, k[3], 0, 2, k[2], k[1]) : k \in DeviationKeys }
    \cup { Auth(k[1], ESCROW_ADDRESS, k[3], 0, MaxTime + 1, k[2], OtherPayer(k[1])) : k \in DeviationKeys }

NoAuth == [from |-> ZERO, to |-> ZERO, value |-> 0, validAfter |-> 0, validBefore |-> 0,
           nonce |-> "none", sig |-> Sign(ZERO, <<>>)]

\* ethers.keccak256(ethers.toUtf8Bytes(id)) / ethers.id(id)
Keccak(id) == IF id = "s1" THEN "keccak256(s1)" ELSE "keccak256(s2)"
ServiceKeys == { Keccak(s) : s \in ServiceIds }
NoService == [provider |-> ZERO, price |-> 0, isActive |-> FALSE]

(***************************************************************************)
(* ERC20                                                                    *)
(***************************************************************************)
Transfer(bal, from, to, value) ==
    IF from = to THEN bal
    ELSE [bal EXCEPT ![from] = @ - value, ![to] = @ + value]

(***************************************************************************)
(* The record kept of the last operation                                    *)
(***************************************************************************)
NoTxHash == <<"none">>

NoOp == [op |-> "idle", sender |-> ZERO, result |-> "ok", status |-> 0, submitted |-> FALSE,
         auth |-> NoAuth, sid |-> "none", amount |-> 0, payTo |-> ZERO,
         txHash |-> NoTxHash, upstream |-> "none", response |-> "none", header |-> "none",
         token |-> <<>>, processor |-> <<>>]

Tx(op, sender, result) == [NoOp EXCEPT !.op = op, !.sender = sender, !.result = result,
                                       !.submitted = TRUE]

(***************************************************************************)
(* MockUSDC.receiveWithAuthorization                                        *)
(***************************************************************************)
\* the require that opens the window: block.timestamp > validAfter
AfterValidAfter(t, validAfter) == t > validAfter

\* the require that closes the window: block.timestamp < validBefore
BeforeValidBefore(t, validBefore) == t < validBefore

\* recoveredAddress != address(0) && recoveredAddress == from
SignatureValid(from, to, value, validAfter, validBefore, nonce, sig) ==
    LET recoveredAddress == Recover(Digest(from, to, value, validAfter, validBefore, nonce), sig)
    IN  recoveredAddress # ZERO /\ recoveredAddress = from

\* "ok", or the reason receiveWithAuthorization reverts with
receiveWithAuthorizationResult(from, to, value, validAfter, validBefore, nonce, sig) ==
    IF ~AfterValidAfter(now, validAfter) THEN "MockUSDC: authorization is not yet valid"
    ELSE IF ~BeforeValidBefore(now, validBefore) THEN "MockUSDC: authorization is expired"
    ELSE IF <<from, nonce>> \in authorizationStates THEN "MockUSDC: authorization is used"
    ELSE IF ~SignatureValid(from, to, value, validAfter, validBefore, nonce, sig)
         THEN "MockUSDC: invalid signature"
    ELSE IF balances[from] < value THEN "ERC20InsufficientBalance"
    ELSE "ok"

(***************************************************************************)
(* X402ServiceRegistry                                                      *)
(***************************************************************************)
REGISTRY_OWNER == RELAYER

\* a registry that lets the owner register an id again
registerServiceResultAgain(sender, id, provider, price) ==
    IF sender # REGISTRY_OWNER THEN "OwnableUnauthorizedAccount"
    ELSE IF provider = ZERO THEN "Invalid provider"
    ELSE IF ~(price > 0) THEN "Price must be > 0"
    ELSE "ok"

registerServiceResult(sender, id, provider, price) ==
    IF sender # REGISTRY_OWNER THEN "OwnableUnauthorizedAccount"
    ELSE IF services[id].provider # ZERO THEN "Service exists"
    ELSE IF provider = ZERO THEN "Invalid provider"
    ELSE IF ~(price > 0) THEN "Price must be > 0"
    ELSE "ok"

registerServiceEffect(id, provider, price) ==
    [services EXCEPT ![id] = [provider |-> provider, price |-> price, isActive |-> TRUE]]

\* a registry whose updatePrice does not look at the caller
updatePriceResultOpen(sender, id, newPrice) ==
    IF services[id].provider = ZERO THEN "Service not found"
    ELSE IF ~(newPrice > 0) THEN "Price must be > 0"
    ELSE "ok"

updatePriceResult(sender, id, newPrice) ==
    IF services[id].provider = ZERO THEN "Service not found"
    ELSE IF ~(sender = services[id].provider \/ sender = REGISTRY_OWNER) THEN "Not authorized"
    ELSE IF ~(newPrice > 0) THEN "Price must be > 0"
    ELSE "ok"

setActiveResult(sender, id) ==
    IF services[id].provider = ZERO THEN "Service not found"
    ELSE IF ~(sender = services[id].provider \/ sender = REGISTRY_OWNER) THEN "Not authorized"
    ELSE "ok"

(***************************************************************************)
(* X402Escrow                                                               *)
(***************************************************************************)
\* a fee that rounds up instead of down
PlatformFeeRoundedUp(amount, feePercent) == (amount * feePercent + 99) \div 100

\* uint256 platformFee = (amount * platformFeePercent) / 100
PlatformFee(amount, feePercent) == (amount * feePercent) \div 100

\* uint256 providerShare = amount - platformFee
ProviderShare(amount, feePercent) == amount - PlatformFee(amount, feePercent)

\* an escrow whose receivePayment is open to every caller
receivePaymentResultOpen(sender, provider, amount, bal) ==
    IF provider = ZERO THEN "Invalid provider"
    ELSE IF ~(amount > 0) THEN "Amount must be > 0"
    ELSE IF bal[ESCROW_ADDRESS] < PlatformFee(amount, platformFeePercent)
         THEN "ERC20InsufficientBalance"
    ELSE "ok"

\* "ok", or the reason receivePayment reverts with, on token balances bal
receivePaymentResult(sender, provider, amount, bal) ==
    IF sender # escrowOwner THEN "OwnableUnauthorizedAccount"
    ELSE IF provider = ZERO THEN "Invalid provider"
    ELSE IF ~(amount > 0) THEN "Amount must be > 0"
    ELSE IF bal[ESCROW_ADDRESS] < PlatformFee(amount, platformFeePercent)
         THEN "ERC20InsufficientBalance"
    ELSE "ok"

\* an escrow that keeps the fee instead of sending it to the treasury
receivePaymentBalancesFeeKept(amount, bal) == bal

\* token balances after the fee transfer to the treasury
receivePaymentBalances(amount, bal) ==
    LET platformFee == PlatformFee(amount, platformFeePercent)
    IN  IF platformFee > 0 THEN Transfer(bal, ESCROW_ADDRESS, platformTreasury, platformFee)
        ELSE bal

\* an escrow that credits the gross amount, fee included
CreditGross(ledger, provider, amount) == [ledger EXCEPT ![provider] = @ + amount]

\* providerBalances[provider] += providerShare (and likewise totalEarned)
Credit(ledger, provider, amount) ==
    [ledger EXCEPT ![provider] = @ + ProviderShare(amount, platformFeePercent)]

\* an escrow that pays out without debiting the provider
DebitForgotten(ledger, provider, amount) == ledger

\* providerBalances[provider] -= amount
Debit(ledger, provider, amount) == [ledger EXCEPT ![provider] = @ - amount]

\* an escrow whose withdraw() does not look at the provider's balance
withdrawResultUnchecked(sender, provider, amount) ==
    IF ~(sender = escrowOwner \/ sender = RELAYER) THEN "Not authorized" ELSE "ok"

withdrawResult(sender, provider, amount) ==
    IF ~(sender = escrowOwner \/ sender = RELAYER) THEN "Not authorized"
    ELSE IF provider = ZERO THEN "Invalid provider"
    ELSE IF ~(amount > 0) THEN "Amount must be > 0"
    ELSE IF ~(providerBalances[provider] >= amount) THEN "Insufficient balance"
    ELSE IF balances[ESCROW_ADDRESS] < amount THEN "ERC20InsufficientBalance"
    ELSE "ok"

\* an escrow whose claim() does not require a balance
claimResultUnchecked(sender) == "ok"

claimResult(sender) ==
    IF ~(providerBalances[sender] > 0) THEN "No balance to claim"
    ELSE IF balances[ESCROW_ADDRESS] < providerBalances[sender] THEN "ERC20InsufficientBalance"
    ELSE "ok"

(***************************************************************************)
(* X402PaymentProcessor.processPayment                                      *)
(***************************************************************************)
\* a processor that forgets to mark the nonce
MarkNonceForgotten(used, nonce) == used

\* usedNonces[nonce] = true
MarkNonce(used, nonce) == used \cup {nonce}

\* "ok", or the reason processPayment reverts with
processPaymentResult(serviceId, a) ==
    IF a.nonce \in usedNonces THEN "Nonce already used"
    ELSE IF serviceId \notin ServiceKeys THEN "Service not found"
    ELSE IF services[serviceId].provider = ZERO THEN "Service not found"
    ELSE IF ~services[serviceId].isActive THEN "Service not active"
    ELSE IF ~(a.value >= services[serviceId].price) THEN "Insufficient payment"
    ELSE LET tokenResult == receiveWithAuthorizationResult(a.from, ESCROW_ADDRESS, a.value,
                                a.validAfter, a.validBefore, a.nonce, a.sig)
         IN  IF tokenResult # "ok" THEN tokenResult
             ELSE receivePaymentResult(PAYMENT_PROCESSOR_ADDRESS, services[serviceId].provider,
                                       a.value, Transfer(balances, a.from, ESCROW_ADDRESS, a.value))

\* the state after a processPayment that did not revert
processPaymentEffect(serviceId, a) ==
    LET provider == services[serviceId].provider
    IN  /\ usedNonces' = MarkNonce(usedNonces, a.nonce)
        /\ authorizationStates' = authorizationStates \cup {<<a.from, a.nonce>>}
        /\ balances' = receivePaymentBalances(a.value,
                           Transfer(balances, a.from, ESCROW_ADDRESS, a.value))
        /\ providerBalances' = Credit(providerBalances, provider, a.value)
        /\ totalEarned' = Credit(totalEarned, provider, a.value)
        /\ paymentProcessed' = paymentProcessed \cup
               {[serviceId |-> serviceId, payer |-> a.from, provider |-> provider,
                 amount |-> a.value, nonce |-> a.nonce]}
        /\ UNCHANGED <<services, totalClaimed, platformFeePercent, platformTreasury, escrowOwner>>

(***************************************************************************)
(* Transactions sent to the contracts directly                              *)
(***************************************************************************)
\* anyone calls PaymentProcessor.processPayment
ProcessPayment(sender, sid, a) ==
    LET result == processPaymentResult(Keccak(sid), a)
    IN  /\ last' = [Tx("processPayment", sender, result) EXCEPT !.auth = a, !.sid = sid]
        /\ IF result = "ok" THEN processPaymentEffect(Keccak(sid), a) ELSE UNCHANGED chainVars
        /\ UNCHANGED <<inflight, now, dbVars>>

\* anyone calls MockUSDC.receiveWithAuthorization (the legacy settlement)
ReceiveWithAuthorization(sender, a) ==
    LET result == receiveWithAuthorizationResult(a.from, a.to, a.value, a.validAfter,
                                                 a.validBefore, a.nonce, a.sig)
    IN  /\ last' = [Tx("receiveWithAuthorization", sender, result) EXCEPT !.auth = a]
        /\ IF result = "ok"
           THEN /\ authorizationStates' = authorizationStates \cup {<<a.from, a.nonce>>}
                /\ balances' = Transfer(balances, a.from, a.to, a.value)
                /\ UNCHANGED <<usedNonces, services, providerBalances, totalEarned, totalClaimed,
                               platformFeePercent, platformTreasury, escrowOwner,
                               paymentProcessed>>
           ELSE UNCHANGED chainVars
        /\ UNCHANGED <<inflight, now, dbVars>>

\* X402Escrow.receivePayment called directly
ReceivePayment(sender, provider, amount) ==
    LET result == receivePaymentResult(sender, provider, amount, balances)
    IN  /\ last' = [Tx("receivePayment", sender, result) EXCEPT !.payTo = provider,
                                                                 !.amount = amount]
        /\ IF result = "ok"
           THEN /\ totalEarned[provider] + amount <= InitialBalance
                /\ balances' = receivePaymentBalances(amount, balances)
                /\ providerBalances' = Credit(providerBalances, provider, amount)
                /\ totalEarned' = Credit(totalEarned, provider, amount)
                /\ UNCHANGED <<authorizationStates, usedNonces, services, totalClaimed,
                               platformFeePercent, platformTreasury, escrowOwner,
                               paymentProcessed>>
           ELSE UNCHANGED chainVars
        /\ UNCHANGED <<inflight, now, dbVars>>

\* X402Escrow.claim
Claim(sender) ==
    LET result == claimResult(sender)
        amount == providerBalances[sender]
    IN  /\ last' = [Tx("claim", sender, result) EXCEPT !.payTo = sender, !.amount = amount]
        /\ IF result = "ok"
           THEN /\ providerBalances' = [providerBalances EXCEPT ![sender] = 0]
                /\ totalClaimed' = [totalClaimed EXCEPT ![sender] = @ + amount]
                /\ balances' = Transfer(balances, ESCROW_ADDRESS, sender, amount)
                /\ UNCHANGED <<authorizationStates, usedNonces, services, totalEarned,
                               platformFeePercent, platformTreasury, escrowOwner,
                               paymentProcessed>>
           ELSE UNCHANGED chainVars
        /\ UNCHANGED <<inflight, now, dbVars>>

\* an escrow whose withdraw pays its caller, as claim does
withdrawPayeeCaller(sender, provider) == sender

\* withdraw's paymentToken.transfer(provider, amount): the payee is the provider
\* named in the call, not msg.sender
withdrawPayee(sender, provider) == provider

\* X402Escrow.withdraw
Withdraw(sender, provider, amount) ==
    LET result == withdrawResult(sender, provider, amount)
    IN  /\ last' = [Tx("withdraw", sender, result) EXCEPT !.payTo = provider, !.amount = amount]
        /\ IF result = "ok"
           THEN /\ providerBalances' = Debit(providerBalances, provider, amount)
                /\ totalClaimed' = [totalClaimed EXCEPT ![provider] = @ + amount]
                /\ balances' = Transfer(balances, ESCROW_ADDRESS,
                                        withdrawPayee(sender, provider), amount)
                /\ UNCHANGED <<authorizationStates, usedNonces, services, totalEarned,
                               platformFeePercent, platformTreasury, escrowOwner,
                               paymentProcessed>>
           ELSE UNCHANGED chainVars
        /\ UNCHANGED <<inflight, now, dbVars>>

\* X402Escrow.setPlatformFee
SetPlatformFee(sender, newFee) ==
    LET result == IF sender # escrowOwner THEN "OwnableUnauthorizedAccount"
                  ELSE IF ~(newFee <= 20) THEN "Fee cannot exceed 20%"
                  ELSE "ok"
    IN  /\ last' = [Tx("setPlatformFee", sender, result) EXCEPT !.amount = newFee]
        /\ platformFeePercent' = IF result = "ok" THEN newFee ELSE platformFeePercent
        /\ UNCHANGED <<balances, authorizationStates, usedNonces, services, providerBalances,
                       totalEarned, totalClaimed, platformTreasury, escrowOwner,
                       paymentProcessed>>
        /\ UNCHANGED <<inflight, now, dbVars>>

\* escrow.transferOwnership(processor.address), the wiring step of the deployment
TransferOwnership(sender) ==
    LET result == IF sender # escrowOwner THEN "OwnableUnauthorizedAccount" ELSE "ok"
    IN  /\ last' = [Tx("transferOwnership", sender, result)
                        EXCEPT !.payTo = PAYMENT_PROCESSOR_ADDRESS]
        /\ escrowOwner' = IF result = "ok" THEN PAYMENT_PROCESSOR_ADDRESS ELSE escrowOwner
        /\ UNCHANGED <<balances, authorizationStates, usedNonces, services, providerBalances,
                       totalEarned, totalClaimed, platformFeePercent, platformTreasury,
                       paymentProcessed>>
        /\ UNCHANGED <<inflight, now, dbVars>>

\* X402ServiceRegistry.registerService called directly
RegisterService(sender, sid, provider, price) ==
    LET id == Keccak(sid)
        result == registerServiceResult(sender, id, provider, price)
    IN  /\ last' = [Tx("registerService", sender, result)
                        EXCEPT !.sid = sid, !.amount = price, !.payTo = provider]
        /\ services' = IF result = "ok" THEN registerServiceEffect(id, provider, price)
                       ELSE services
        /\ UNCHANGED <<balances, authorizationStates, usedNonces, providerBalances,
                       totalEarned, totalClaimed, platformFeePercent, platformTreasury,
                       escrowOwner, paymentProcessed>>
        /\ UNCHANGED <<inflight, now, dbVars>>

\* X402ServiceRegistry.updatePrice
UpdatePrice(sender, sid, newPrice) ==
    LET id == Keccak(sid)
        result == updatePriceResult(sender, id, newPrice)
    IN  /\ last' = [Tx("updatePrice", sender, result) EXCEPT !.sid = sid, !.amount = newPrice]
        /\ services' = IF result = "ok" THEN [services EXCEPT ![id].price = newPrice]
                       ELSE services
        /\ UNCHANGED <<balances, authorizationStates, usedNonces, providerBalances,
                       totalEarned, totalClaimed, platformFeePercent, platformTreasury,
                       escrowOwner, paymentProcessed>>
        /\ UNCHANGED <<inflight, now, dbVars>>

\* X402ServiceRegistry.deactivateService / reactivateService
SetActive(sender, sid, active) ==
    LET id == Keccak(sid)
        result == setActiveResult(sender, id)
    IN  /\ last' = [Tx(IF active THEN "reactivateService" ELSE "deactivateService",
                       sender, result) EXCEPT !.sid = sid]
        /\ services' = IF result = "ok" THEN [services EXCEPT ![id].isActive = active]
                       ELSE services
        /\ UNCHANGED <<balances, authorizationStates, usedNonces, providerBalances,
                       totalEarned, totalClaimed, platformFeePercent, platformTreasury,
                       escrowOwner, paymentProcessed>>
        /\ UNCHANGED <<inflight, now, dbVars>>

\* a second of time passes
Tick ==
    /\ now < MaxTime
    /\ now' = now + 1
    /\ UNCHANGED <<last, inflight>>
    /\ UNCHANGED <<chainVars, dbVars>>

(***************************************************************************)
(* The gateway's configuration and persistence                              *)
(***************************************************************************)
\* the functions the deployed X402PaymentProcessor answers to
PROCESSOR_FUNCTIONS ==
    {"processPayment(bytes32,address,uint256,uint256,uint256,bytes32,uint8,bytes32,bytes32)",
     "usedNonces(bytes32)", "setServiceRegistry(address)"}

\* PROCESSOR_ABI of the gateway route
GATEWAY_PROCESSOR_ABI ==
    "processPayment(address,address,uint256,uint256,uint256,bytes32,uint8,bytes32,bytes32,bytes32)"

\* PAYMENT_PROCESSOR_ABI of the relayer
RELAYER_PROCESS_PAYMENT_ABI ==
    "processPayment(bytes32,address,uint256,uint256,uint256,bytes32,uint8,bytes32,bytes32)"
RELAYER_USED_NONCES_ABI == "usedNonces(address,bytes32)"

\* PLATFORM_FEE_PERCENT of the verify-payment route, in percent
PLATFORM_FEE_PERCENT == 5

NoDbService == [exists |-> FALSE, isActive |-> FALSE, price |-> 0, type |-> "none",
                walletAddress |-> ZERO]

\* service.price * 1e18, the price in base units
ToBaseUnits(price) == price * UNIT

\* the hash of a settlement transaction that was mined successfully: it is taken
\* over the call data, which carries every field of the authorization
TxHash(a) == <<"tx", a>>

Http(op, status, result) == [NoOp EXCEPT !.op = op, !.status = status, !.result = result]

(***************************************************************************)
(* RelayerFacilitator                                                       *)
(***************************************************************************)
\* a probe that the contract answers
NonceProbeAnswered(a) == a.nonce \in usedNonces

\* the nonce probe of verify: TRUE iff the probe answers that the nonce is used;
\* a call the contract does not answer throws, and the throw is swallowed
NonceProbe(a) ==
    IF RELAYER_USED_NONCES_ABI \in PROCESSOR_FUNCTIONS THEN a.nonce \in usedNonces ELSE FALSE

\* signatureData.validAfter > now
NotYetValid(a, t) == a.validAfter > t

\* signatureData.validBefore < now
Expired(a, t) == a.validBefore < t

\* RelayerFacilitator.verify: "ok" (isValid) or the error it returns
verify(a) ==
    IF NotYetValid(a, now) THEN "Authorization not yet valid"
    ELSE IF Expired(a, now) THEN "Authorization expired"
    ELSE IF NonceProbe(a) THEN "Nonce already used"
    ELSE "ok"

\* whether settle's processPayment call can be encoded: serviceId must be a bytes32
IsBytes32(serviceId) == serviceId \in ServiceKeys

\* RelayerFacilitator.settle with a service id: [result, submitted]
settleViaProcessor(serviceId, a) ==
    IF ~IsBytes32(serviceId) THEN [result |-> "Settlement failed: invalid BytesLike value",
                                   submitted |-> FALSE]
    ELSE [result |-> processPaymentResult(serviceId, a), submitted |-> TRUE]

(***************************************************************************)
(* HTTP handlers                                                            *)
(***************************************************************************)
\* a route that leaves the row in place when the registration failed
rowAfterFailedRegistrationKept(row) == row

\* the catch of the on-chain step: prisma.service.delete({ where: { id } })
rowAfterFailedRegistration(row) == NoDbService

\* POST /api/services: the row is created, then the service is registered on-chain
\* (no gas limit: a call that would revert is refused before it is sent)
PostServices(sid, price, type) ==
    LET id == Keccak(sid)
        result == registerServiceResult(RELAYER, id, ProviderOf(sid), ToBaseUnits(price))
        row == [exists |-> TRUE, isActive |-> TRUE, price |-> price,
                type |-> type, walletAddress |-> ProviderOf(sid)]
    IN  /\ ~dbServices[sid].exists
        /\ IF result = "ok"
           THEN /\ dbServices' = [dbServices EXCEPT ![sid] = row]
                /\ services' = registerServiceEffect(id, ProviderOf(sid), ToBaseUnits(price))
                /\ last' = [Http("POST /services", 201, "ok") EXCEPT !.sid = sid,
                                !.amount = price, !.submitted = TRUE]
           ELSE /\ dbServices' = [dbServices EXCEPT ![sid] = rowAfterFailedRegistration(row)]
                /\ UNCHANGED services
                /\ last' = [Http("POST /services", 500, result) EXCEPT !.sid = sid,
                                !.amount = price]
        /\ UNCHANGED <<inflight, now, balances, authorizationStates, usedNonces, providerBalances,
                       totalEarned, totalClaimed, platformFeePercent, platformTreasury,
                       escrowOwner, paymentProcessed, accessLog, totalEarnings, claimedAmount>>

\* the bodies of PATCH /api/services/{id}: a field is <<>> when the body leaves it
\* out, and <<x>> when the body sets it to x; prices are in tokens
PatchBodies ==
    [price : {<<>>, <<-1>>, <<0>>, <<2>>}, isActive : {<<>>, <<TRUE>>, <<FALSE>>}]

\* PATCH /api/services/{id}: the fields of the body go to prisma.service.update
PatchService(sid, body) ==
    /\ IF dbServices[sid].exists
       THEN /\ dbServices' = [dbServices EXCEPT ![sid] =
                   [@ EXCEPT !.price = IF body.price = <<>> THEN @ ELSE body.price[1],
                             !.isActive = IF body.isActive = <<>> THEN @
                                          ELSE body.isActive[1]]]
            /\ last' = [Http("PATCH /services", 200, "ok")
                            EXCEPT !.sid = sid, !.amount = dbServices'[sid].price]
       ELSE /\ UNCHANGED dbServices
            /\ last' = [Http("PATCH /services", 500, "Failed to update service")
                            EXCEPT !.sid = sid]
    /\ UNCHANGED <<inflight, now, chainVars, accessLog, totalEarnings, claimedAmount>>

\* DELETE /api/services/{id}
DeleteService(sid) ==
    /\ IF dbServices[sid].exists
       THEN /\ dbServices' = [dbServices EXCEPT ![sid].isActive = FALSE]
            /\ last' = [Http("DELETE /services", 200, "ok") EXCEPT !.sid = sid]
       ELSE /\ UNCHANGED dbServices
            /\ last' = [Http("DELETE /services", 500, "Failed to delete service")
                            EXCEPT !.sid = sid]
    /\ UNCHANGED <<inflight, now, chainVars, accessLog, totalEarnings, claimedAmount>>

\* the payTo of the 402 challenge of the gateway route
GatewayChallengePayTo(sid) == dbServices[sid].walletAddress

\* a gateway that serves every kind of service
ServiceRefusalAnyKind(service) ==
    IF ~service.exists THEN 404 ELSE IF ~service.isActive THEN 410 ELSE 0

\* the status the gateway refuses a service with before it reads any header, or 0
ServiceRefusal(service) ==
    IF ~service.exists THEN 404
    ELSE IF ~service.isActive THEN 410
    ELSE IF service.type = "API" THEN 400
    ELSE 0

\* what the service's endpoint does when it is fetched
Upstreams == {"ok", "status", "unreachable", "not-json"}

\* GET|POST /api/gateway/{serviceId}; header is "none", "json" (the JSON signature
\* tuple) or "tunnel" (the base64 envelope); upstream is what the PROXY fetch meets
Gateway(sid, header, a) ==
    LET R(status, result) == [Http("gateway", status, result)
                                 EXCEPT !.sid = sid, !.auth = a, !.header = header]
        \* processor.processPayment through PROCESSOR_ABI, with ethers.id(serviceId)
        result == IF GATEWAY_PROCESSOR_ABI \in PROCESSOR_FUNCTIONS
                  THEN processPaymentResult(Keccak(sid), a)
                  ELSE "no such function"
        paid == [R(200, "ok") EXCEPT !.submitted = TRUE, !.txHash = TxHash(a)]
    IN  /\ header = "none" => a = NoAuth
        /\ header # "none" => a \in Auths
        /\ IF ServiceRefusal(dbServices[sid]) = 404
             THEN last' = R(404, "Service not found")
                  /\ UNCHANGED <<inflight, now, chainVars, dbVars>>
           ELSE IF ServiceRefusal(dbServices[sid]) = 410
             THEN last' = R(410, "Service is inactive")
                  /\ UNCHANGED <<inflight, now, chainVars, dbVars>>
           ELSE IF ServiceRefusal(dbServices[sid]) = 400
             THEN last' = R(400, "This service uses direct x402 API")
                  /\ UNCHANGED <<inflight, now, chainVars, dbVars>>
           ELSE IF header = "none"
             THEN last' = [Http("gateway", 402, "Payment Required")
                             EXCEPT !.sid = sid, !.payTo = GatewayChallengePayTo(sid),
                                    !.amount = ToBaseUnits(dbServices[sid].price)]
                  /\ UNCHANGED <<inflight, now, chainVars, dbVars>>
           ELSE IF header = "tunnel"
             \* JSON.parse of a base64 string throws
             THEN last' = R(402, "Payment verification failed")
                  /\ UNCHANGED <<inflight, now, chainVars, dbVars>>
           ELSE IF result # "ok"
             \* the transaction is mined and reverts; the catch answers
             THEN last' = [R(402, "Payment verification failed") EXCEPT !.submitted = TRUE]
                  /\ UNCHANGED <<inflight, now, chainVars, dbVars>>
           ELSE /\ processPaymentEffect(Keccak(sid), a)
                /\ accessLog' = Append(accessLog,
                       [serviceId |-> sid, callerAddress |-> a.from, txHash |-> TxHash(a),
                        amount |-> ToBaseUnits(dbServices[sid].price),
                        providerId |-> dbServices[sid].walletAddress,
                        providerRevenue |-> (ToBaseUnits(dbServices[sid].price) * 95) \div 100])
                /\ \E upstream \in Upstreams :
                     last' = IF dbServices[sid].type = "HOSTED"
                               THEN [paid EXCEPT !.response = "content"]
                             ELSE IF upstream \in {"unreachable", "not-json"}
                               \* fetch or targetResponse.json() throws into the same catch
                               THEN [R(402, "Payment verification failed")
                                       EXCEPT !.submitted = TRUE, !.upstream = upstream]
                             ELSE [paid EXCEPT !.upstream = upstream, !.response = "upstream"]
                /\ UNCHANGED <<inflight, now, dbServices, totalEarnings, claimedAmount>>

\* GET /api/agent/services and GET /api/agent/services/{id}: the catalog entry of sid
AgentCatalogPayTo(sid) == ESCROW_ADDRESS

AgentServices(sid, detail) ==
    /\ IF dbServices[sid].exists /\ (detail \/ dbServices[sid].isActive)
       THEN last' = [Http(IF detail THEN "GET /agent/services/{id}" ELSE "GET /agent/services",
                          200, "ok")
                        EXCEPT !.sid = sid, !.payTo = AgentCatalogPayTo(sid),
                               !.amount = ToBaseUnits(dbServices[sid].price)]
       ELSE last' = [Http(IF detail THEN "GET /agent/services/{id}" ELSE "GET /agent/services",
                          IF detail THEN 404 ELSE 200,
                          IF detail THEN "Service not found" ELSE "ok") EXCEPT !.sid = sid]
    /\ UNCHANGED <<inflight, now, chainVars, dbVars>>

\* the checks of POST /api/agent/execute that precede verify
DestinationOk(a) == a.to = ESCROW_ADDRESS
AmountOk(sid, a) == ~(a.value < ToBaseUnits(dbServices[sid].price))

\* a route that hands on the upstream body and drops the error it met
serviceResponseErrorDropped(upstream) == "upstream"

\* serviceResponse of POST /api/agent/execute
serviceResponse(upstream) ==
    IF upstream = "ok" THEN "upstream"
    ELSE IF upstream = "status" THEN "Service returned error"
    ELSE "Could not reach service endpoint"

\* POST /api/agent/execute; logged tells whether prisma.accessLog.create went
\* through: when it throws, the catch around it lets the request continue;
\* upstream is what the fetch of service.endpointUrl meets
AgentExecute(sid, walletAddress, a) ==
    LET v == verify(a)
        s == settleViaProcessor(Keccak(sid), a)
        R(status, result, submitted) ==
            [Http("agent/execute", status, result)
                 EXCEPT !.sid = sid, !.auth = a, !.submitted = submitted,
                        !.sender = walletAddress]
    IN  IF ~dbServices[sid].exists \/ ~dbServices[sid].isActive
          THEN last' = R(404, "Service not found or inactive", FALSE)
               /\ UNCHANGED <<inflight, now, chainVars, dbVars>>
        ELSE IF ~DestinationOk(a)
          THEN last' = R(400, "Signature payTo address does not match Escrow contract", FALSE)
               /\ UNCHANGED <<inflight, now, chainVars, dbVars>>
        ELSE IF ~AmountOk(sid, a)
          THEN last' = R(400, "Insufficient payment amount", FALSE)
               /\ UNCHANGED <<inflight, now, chainVars, dbVars>>
        ELSE IF v # "ok"
          THEN last' = R(402, v, FALSE) /\ UNCHANGED <<inflight, now, chainVars, dbVars>>
        ELSE IF s.result # "ok"
          THEN last' = R(500, s.result, s.submitted) /\ UNCHANGED <<inflight, now, chainVars, dbVars>>
        ELSE /\ processPaymentEffect(Keccak(sid), a)
             /\ \E logged \in BOOLEAN :
                   accessLog' = IF logged
                                THEN Append(accessLog,
                                       [serviceId |-> sid, callerAddress |-> walletAddress,
                                        txHash |-> TxHash(a),
                                        amount |-> ToBaseUnits(dbServices[sid].price),
                                        providerId |-> "", providerRevenue |-> 0])
                                ELSE accessLog
             /\ \E upstream \in Upstreams :
                   last' = [R(200, "ok", TRUE) EXCEPT !.txHash = TxHash(a),
                                                      !.upstream = upstream,
                                                      !.response = serviceResponse(upstream)]
             /\ UNCHANGED <<inflight, now, dbServices, totalEarnings, claimedAmount>>

(***************************************************************************)
(* The payload codec. A text is <<"json", value>> when it is JSON.stringify *)
(* of a value, <<"base64", text>> when it is the base64 form of a text, and *)
(* <<"text">> or <<"bytes">> when it is neither. An optional value is <<>>  *)
(* or <<value>>. A payload object is [proof, sig]: its proof field, if any, *)
(* and the signature fields it carries itself (NoAuth for none).            *)
(***************************************************************************)
ToJson(value) == <<"json", value>>
Base64(text) == <<"base64", text>>

\* Buffer.from(x, 'base64').toString() never throws: it yields bytes of some kind
FromBase64(x) == IF x[1] = "base64" THEN x[2] ELSE <<"bytes">>

\* JSON.parse(text), <<>> when it throws
JsonParse(text) == IF text[1] = "json" THEN <<text[2]>> ELSE <<>>

\* the client's tunnel encoding of a signature tuple (benchmark_100.js)
encodeTunnel(sig) ==
    Base64(ToJson([proof |-> <<Base64(ToJson(sig))>>, sig |-> NoAuth]))

\* a client that sends the signature tuple itself, base64 JSON without envelope
encodeDirect(sig) == Base64(ToJson([proof |-> <<>>, sig |-> sig]))

\* RelayerFacilitator.decodeTunnelPayload, <<>> for null
decodeTunnelPayload(proof) == JsonParse(FromBase64(proof))


\* the signatureData that RelayerFacilitator.verify works on, NoAuth for null
signatureDataOf(payload) ==
    LET inner == IF payload.proof # <<>> THEN decodeTunnelPayload(payload.proof[1]) ELSE <<>>
    IN  IF inner # <<>> THEN inner[1]
        ELSE IF payload.sig # NoAuth THEN payload.sig
        ELSE NoAuth

\* a proof that is base64 but not of JSON
BadProof == Base64(<<"text">>)

\* what a caller may send as paymentSignature: the tunnel envelope, the bare
\* tuple, an envelope with both a proof and signature fields of its own, an
\* envelope whose proof does not decode, with and without such fields, and
\* strings that are no envelope at all
Tokens ==
    {encodeTunnel(sig) : sig \in GoodAuths}
      \cup {encodeDirect(sig) : sig \in GoodAuths}
      \cup {Base64(ToJson([proof |-> <<Base64(ToJson(inner))>>, sig |-> outer])) :
               inner \in GoodAuths, outer \in {x \in GoodAuths : x.from = "A"}}
      \cup {Base64(ToJson([proof |-> <<BadProof>>, sig |-> outer])) :
               outer \in {x \in GoodAuths : x.from = "A"} \cup {NoAuth}}
      \cup {BadProof, <<"text">>}

\* POST /api/verify-payment; token is the body's paymentSignature, serviceId is
\* the caller's string, amount is in tokens
VerifyPayment(serviceId, providerId, amount, token) ==
    LET tokenPayload == JsonParse(FromBase64(token))
        a == IF tokenPayload = <<>> THEN NoAuth ELSE signatureDataOf(tokenPayload[1])
        v == verify(a)
        s == settleViaProcessor(serviceId, a)
        providerRevenue == ToBaseUnits(amount)
                             - (ToBaseUnits(amount) * PLATFORM_FEE_PERCENT) \div 100
        R(status, result, submitted) ==
            [Http("verify-payment", status, result)
                 EXCEPT !.auth = a, !.submitted = submitted, !.amount = amount,
                        !.sid = serviceId, !.token = token]
    IN  IF tokenPayload = <<>>
          THEN last' = R(500, "Payment verification failed", FALSE)
               /\ UNCHANGED <<inflight, now, chainVars, dbVars>>
        ELSE IF a = NoAuth
          THEN last' = R(402, "Invalid signature data", FALSE)
               /\ UNCHANGED <<inflight, now, chainVars, dbVars>>
        ELSE IF v # "ok"
          THEN last' = R(402, v, FALSE) /\ UNCHANGED <<inflight, now, chainVars, dbVars>>
        ELSE IF s.result # "ok"
          THEN last' = R(500, s.result, s.submitted) /\ UNCHANGED <<inflight, now, chainVars, dbVars>>
        ELSE /\ processPaymentEffect(serviceId, a)
             \* the row needs an existing Service row (foreign key); a failure is swallowed
             /\ accessLog' = IF serviceId \in ServiceIds /\ dbServices[serviceId].exists
                             THEN Append(accessLog,
                                    [serviceId |-> serviceId, callerAddress |-> a.from,
                                     txHash |-> TxHash(a), amount |-> ToBaseUnits(amount),
                                     providerId |-> providerId,
                                     providerRevenue |-> providerRevenue])
                             ELSE accessLog
             /\ totalEarnings' = [totalEarnings EXCEPT ![providerId] = @ + providerRevenue]
             /\ last' = [R(200, "ok", TRUE) EXCEPT !.txHash = TxHash(a)]
             /\ UNCHANGED <<inflight, now, dbServices, claimedAmount>>


(***************************************************************************)
(* RelayerFacilitator.settle: the choice between the PaymentProcessor and   *)
(* the token. An optional argument is <<>> or <<value>>.                    *)
(***************************************************************************)
\* serviceId || signatureData.serviceId
effectiveServiceId(serviceId, signatureServiceId) ==
    IF serviceId # <<>> THEN serviceId ELSE signatureServiceId

\* a relayer that goes through the processor whenever one is configured
settlePathProcessorFirst(processorAddress, serviceId) ==
    IF processorAddress # <<>> THEN "processor" ELSE "token"

\* if (this.processorAddress && effectiveServiceId) settleViaProcessor, else
\* settleDirectToken
settlePath(processorAddress, serviceId) ==
    IF processorAddress # <<>> /\ serviceId # <<>> THEN "processor" ELSE "token"

\* the relayers the routes construct: with PAYMENT_PROCESSOR_ADDRESS set or not
ProcessorAddresses == {<<>>, <<PAYMENT_PROCESSOR_ADDRESS>>}

\* relayer.settle(signatureData, serviceId?) of a relayer whose wallet is configured;
\* both paths send with an explicit gasLimit and wait for the receipt
Settle(processorAddress, serviceId, signatureServiceId, a) ==
    LET effective == effectiveServiceId(serviceId, signatureServiceId)
        sid == IF effective = <<>> THEN "none" ELSE effective[1]
        path == settlePath(processorAddress, effective)
        s == settleViaProcessor(sid, a)
        t == receiveWithAuthorizationResult(a.from, a.to, a.value, a.validAfter,
                                            a.validBefore, a.nonce, a.sig)
        R(result, submitted) ==
            [Tx("settle", RELAYER, result)
                 EXCEPT !.auth = a, !.sid = sid, !.submitted = submitted,
                        !.response = path, !.processor = processorAddress,
                        !.txHash = IF result = "ok" THEN TxHash(a) ELSE NoTxHash]
    IN  /\ IF path = "processor"
           THEN /\ last' = R(s.result, s.submitted)
                /\ IF s.result = "ok" THEN processPaymentEffect(sid, a)
                   ELSE UNCHANGED chainVars
           ELSE /\ last' = R(t, TRUE)
                /\ IF t = "ok"
                   THEN /\ authorizationStates' = authorizationStates \cup {<<a.from, a.nonce>>}
                        /\ balances' = Transfer(balances, a.from, a.to, a.value)
                        /\ UNCHANGED <<usedNonces, services, providerBalances, totalEarned,
                                       totalClaimed, platformFeePercent, platformTreasury,
                                       escrowOwner, paymentProcessed>>
                   ELSE UNCHANGED chainVars
        /\ UNCHANGED <<inflight, now, dbVars>>

(***************************************************************************)
(* POST /api/agent/execute, step by step: its awaits are the points where   *)
(* requests handled at the same time interleave                              *)
(***************************************************************************)
NoRequest == [pc |-> "idle", sid |-> "none", wallet |-> ZERO, auth |-> NoAuth,
              result |-> "none", status |-> 0, amount |-> 0,
              relayerNonce |-> <<>>, broadcast |-> FALSE, upstreamCalls |-> 0,
              optimistic |-> "none"]

\* the authorizations that pass the route's destination and amount checks
PayableAuths == { a \in Auths : a.to = ESCROW_ADDRESS /\ a.value >= UNIT /\ a.sig.key = a.from }

\* a relayer that reports success without looking at the receipt
SettleSucceededAlways(result) == TRUE

\* a relayer that returns success once the node has taken the transaction
SettleSucceededOnSend(result) == result # "nonce has already been used"

\* settleResult.success
SettleSucceeded(result) == result = "ok"

\* the request arrives: service lookup, destination and amount checks, relayer.verify
ExecuteVerify(r, sid, walletAddress, a) ==
    LET v == verify(a)
        Q(pc, status, result) ==
            [NoRequest EXCEPT !.pc = pc, !.sid = sid, !.wallet = walletAddress, !.auth = a,
                              !.result = result, !.status = status]
    IN  /\ inflight[r].pc = "idle"
        /\ inflight' = [inflight EXCEPT ![r] =
              IF ~dbServices[sid].exists \/ ~dbServices[sid].isActive
                THEN Q("done", 404, "Service not found or inactive")
              ELSE IF ~DestinationOk(a)
                THEN Q("done", 400, "Signature payTo address does not match Escrow contract")
              ELSE IF ~AmountOk(sid, a)
                THEN Q("done", 400, "Insufficient payment amount")
              ELSE IF v # "ok" THEN Q("done", 402, v)
              ELSE Q("verified", 0, "none")]
        /\ UNCHANGED <<now, chainVars, dbVars, last>>

\* settleViaProcessor sends the transaction from the relayer wallet; the node may
\* refuse it when another transaction of the same wallet is pending (account nonce)
ExecuteSubmit(r, accepted) ==
    /\ inflight[r].pc = "verified"
    /\ accepted \/ \E q \in RequestIds \ {r} : inflight[q].pc = "submitted"
    /\ inflight' = [inflight EXCEPT ![r] =
          IF accepted THEN [@ EXCEPT !.pc = "submitted"]
          ELSE [@ EXCEPT !.pc = "settled", !.result = "nonce has already been used"]]
    /\ UNCHANGED <<now, chainVars, dbVars, last>>

\* the relayer account's transaction count when the wallet was constructed
StartNonce == 5

\* eth_getTransactionCount(relayer, "pending"): the transactions of the relayer
\* account the node has accepted, mined or not
PendingCount == StartNonce + Cardinality({ q \in RequestIds : inflight[q].broadcast })

\* eth_getTransactionCount(relayer, "latest"): those already mined
MinedCount ==
    StartNonce + Cardinality({ q \in RequestIds :
                                 inflight[q].broadcast /\ inflight[q].pc \in {"settled", "done"} })

\* processor.processPayment(..., { gasLimit }) carries no nonce: the wallet fills it
\* in from the node's pending transaction count at the moment of the call
ExecutePopulate(r) ==
    /\ inflight[r].pc = "verified"
    /\ inflight' = [inflight EXCEPT ![r] =
          [@ EXCEPT !.pc = "populated", !.relayerNonce = <<PendingCount>>]]
    /\ UNCHANGED <<now, chainVars, dbVars, last>>

\* the signed transaction reaches the node, which takes it when its nonce is the
\* next one of the account and refuses it when that nonce is already taken
ExecuteBroadcast(r) ==
    /\ inflight[r].pc = "populated"
    /\ inflight' = [inflight EXCEPT ![r] =
          IF @.relayerNonce[1] = PendingCount
            THEN [@ EXCEPT !.pc = "submitted", !.broadcast = TRUE]
          ELSE [@ EXCEPT !.pc = "settled", !.result = "nonce has already been used"]]
    /\ UNCHANGED <<now, chainVars, dbVars, last>>

\* the transaction is mined: processPayment runs on the chain state of that moment
ExecuteMine(r) ==
    LET q == inflight[r]
        result == processPaymentResult(Keccak(q.sid), q.auth)
    IN  /\ q.pc = "submitted"
        /\ IF result = "ok" THEN processPaymentEffect(Keccak(q.sid), q.auth)
           ELSE UNCHANGED chainVars
        /\ inflight' = [inflight EXCEPT ![r] = [@ EXCEPT !.pc = "settled", !.result = result]]
        /\ UNCHANGED <<now, dbVars, last>>

\* a route that calls the endpoint a second time when the first call failed
fetchAttemptsRetrying(upstream) == IF upstream = "ok" THEN 1 ELSE 2

\* the calls of fetch(service.endpointUrl) made for one paid request: one, whatever
\* its outcome, the failure being put into the response body
fetchAttempts(upstream) == 1

\* tx.wait() has returned: settle's result is looked at, the access is logged
\* (unless the write throws, which is swallowed), the endpoint is called and the
\* response is sent
ExecuteRespond(r, logged) ==
    LET q == inflight[r]
    IN  /\ q.pc = "settled"
        /\ IF SettleSucceeded(q.result)
           THEN /\ accessLog' = IF logged
                                THEN Append(accessLog,
                                       [serviceId |-> q.sid, callerAddress |-> q.wallet,
                                        txHash |-> TxHash(q.auth),
                                        amount |-> ToBaseUnits(dbServices[q.sid].price),
                                        providerId |-> "", providerRevenue |-> 0])
                                ELSE accessLog
                /\ \E upstream \in Upstreams :
                      inflight' = [inflight EXCEPT ![r] =
                         [@ EXCEPT !.pc = "done", !.status = 200,
                                   !.upstreamCalls = fetchAttempts(upstream)]]
           ELSE /\ UNCHANGED accessLog
                /\ inflight' = [inflight EXCEPT ![r] = [@ EXCEPT !.pc = "done", !.status = 500]]
        /\ UNCHANGED <<now, chainVars, dbServices, totalEarnings, claimedAmount, last>>

(***************************************************************************)
(* POST /api/claim and GET /api/revenue/wallet; amounts are in base units   *)
(***************************************************************************)
\* the amounts asked for: none, the provider's share of one call, two prices
ClaimAmounts == {0, ProviderShare(UNIT, PLATFORM_FEE_PERCENT), 2 * UNIT}

\* GET /api/revenue/wallet?address=W; the read of the chain may fail
GetRevenueWallet(walletAddress) ==
    /\ \E chainRead \in BOOLEAN :
          last' = IF chainRead
                    THEN [Http("GET /revenue/wallet", 200, "ok")
                            EXCEPT !.payTo = walletAddress,
                                   !.amount = providerBalances[walletAddress],
                                   !.response = "on-chain"]
                  ELSE [Http("GET /revenue/wallet", 500, "Failed to fetch on-chain balance")
                            EXCEPT !.payTo = walletAddress]
    /\ UNCHANGED <<inflight, now, chainVars, dbVars>>

\* onChainBalance = provider.totalEarnings - provider.claimedAmount
onChainBalanceFallback(providerId) == totalEarnings[providerId] - claimedAmount[providerId]

\* GET /api/revenue/{providerId}; the provider's id stands for its wallet too
GetRevenueProvider(providerId) ==
    /\ \E chainRead \in BOOLEAN :
          last' = [Http("GET /revenue/{providerId}", 200, "ok")
                     EXCEPT !.payTo = providerId,
                            !.amount = IF chainRead THEN providerBalances[providerId]
                                       ELSE onChainBalanceFallback(providerId),
                            !.response = IF chainRead THEN "on-chain" ELSE "mirror"]
    /\ UNCHANGED <<inflight, now, chainVars, dbVars>>

\* POST /api/claim up to its balance check against escrow.providerBalances
ClaimCheck(r, walletAddress, amount) ==
    LET Q(pc, status, result) ==
            [NoRequest EXCEPT !.pc = pc, !.wallet = walletAddress, !.amount = amount,
                              !.status = status, !.result = result]
    IN  /\ inflight[r].pc = "idle"
        /\ inflight' = [inflight EXCEPT ![r] =
              IF amount = 0 THEN Q("done", 400, "Missing amount")
              ELSE IF amount > providerBalances[walletAddress]
                THEN Q("done", 400, "Insufficient claimable balance")
              ELSE Q("checked", 0, "none")]
        /\ UNCHANGED <<now, chainVars, dbVars, last>>

\* escrow.withdraw is sent from the relayer wallet with a gas limit and mined; the
\* node may refuse it when another claim's transaction of that wallet is pending
ClaimWithdraw(r, accepted) ==
    LET q == inflight[r]
        result == IF accepted THEN withdrawResult(RELAYER, q.wallet, q.amount)
                  ELSE "nonce has already been used"
    IN  /\ q.pc = "checked"
        /\ accepted \/ \E o \in RequestIds \ {r} : inflight[o].pc = "checked"
        /\ last' = [Tx("withdraw", RELAYER, result) EXCEPT !.payTo = q.wallet,
                                                           !.amount = q.amount]
        /\ IF result = "ok"
           THEN /\ providerBalances' = Debit(providerBalances, q.wallet, q.amount)
                /\ totalClaimed' = [totalClaimed EXCEPT ![q.wallet] = @ + q.amount]
                /\ balances' = Transfer(balances, ESCROW_ADDRESS, q.wallet, q.amount)
                /\ UNCHANGED <<authorizationStates, usedNonces, services, totalEarned,
                               platformFeePercent, platformTreasury, escrowOwner,
                               paymentProcessed>>
           ELSE UNCHANGED chainVars
        /\ inflight' = [inflight EXCEPT ![r] =
              IF result = "ok" THEN [@ EXCEPT !.pc = "done", !.status = 200, !.result = "ok"]
              ELSE [@ EXCEPT !.pc = "done", !.status = 500, !.result = "Claim failed"]]
        \* with a providerId in the body the claim is mirrored, unless the write throws
        /\ \E mirrored \in BOOLEAN :
              claimedAmount' = IF result = "ok" /\ mirrored
                               THEN [claimedAmount EXCEPT ![q.wallet] = @ + q.amount]
                               ELSE claimedAmount
        /\ UNCHANGED <<now, dbServices, accessLog, totalEarnings>>

\* the response of a claim has been read
ClaimAnswered(r) ==
    /\ inflight[r].pc = "done"
    /\ inflight' = [inflight EXCEPT ![r] = NoRequest]
    /\ UNCHANGED <<now, chainVars, dbVars, last>>

(***************************************************************************)
(* The example resource server (GET /premium-data): its facilitator settles *)
(* on the example MockUSDC, whose receiveWithAuthorization must be called   *)
(* by the payee; the server's wallet is the payee                           *)
(***************************************************************************)
\* a facilitator that always waits for the receipt
returnsAtSubmissionNever(OPTIMISTIC_SETTLEMENT) == FALSE

\* process.env.OPTIMISTIC_SETTLEMENT === 'true'
returnsAtSubmission(OPTIMISTIC_SETTLEMENT) == OPTIMISTIC_SETTLEMENT = "true"

\* the values OPTIMISTIC_SETTLEMENT is started with
OptimisticSettings == {"true", "false"}

\* the authorizations sent to the example server: made out to the server's wallet,
\* with an open window or one that closes at time 2
PremiumAuths ==
    { Auth(k[1], RELAYER, UNIT, 0, vb, k[2], k[1]) :
        k \in {<<"A", "n1">>, <<"B", "n1">>}, vb \in {2, MaxTime + 1} }

\* "ok", or the reason the example MockUSDC.receiveWithAuthorization reverts with
payeeReceiveWithAuthorizationResult(sender, a) ==
    IF a.to # sender THEN "MockUSDC: caller must be payment recipient"
    ELSE IF ~(now > a.validAfter) THEN "MockUSDC: authorization is not yet valid"
    ELSE IF ~(now < a.validBefore) THEN "MockUSDC: authorization is expired"
    ELSE IF <<a.from, a.nonce>> \in authorizationStates THEN "MockUSDC: authorization is used"
    ELSE IF Recover(Digest(a.from, a.to, a.value, a.validAfter, a.validBefore, a.nonce),
                    a.sig) # a.from
         THEN "MockUSDC: invalid signature"
    ELSE IF balances[a.from] < a.value THEN "ERC20InsufficientBalance"
    ELSE "ok"

\* verify (always valid) and settle up to the send: the transaction goes out with
\* a gas limit; in optimistic mode settle returns success here and the content is
\* served, otherwise the request waits for the receipt
PremiumSend(r, a, OPTIMISTIC_SETTLEMENT) ==
    /\ inflight[r].pc = "idle"
    /\ inflight' = [inflight EXCEPT ![r] =
          IF returnsAtSubmission(OPTIMISTIC_SETTLEMENT)
            THEN [NoRequest EXCEPT !.pc = "served", !.auth = a, !.wallet = a.from,
                                   !.broadcast = TRUE, !.status = 200,
                                   !.optimistic = OPTIMISTIC_SETTLEMENT]
          ELSE [NoRequest EXCEPT !.pc = "waiting", !.auth = a, !.wallet = a.from,
                                 !.broadcast = TRUE,
                                 !.optimistic = OPTIMISTIC_SETTLEMENT]]
    /\ UNCHANGED <<now, chainVars, dbVars, last>>

\* the transaction is mined. A request that waits is answered by the receipt; for
\* one already served the background task logs the outcome and nothing else
PremiumMine(r) ==
    LET q == inflight[r]
        result == payeeReceiveWithAuthorizationResult(RELAYER, q.auth)
    IN  /\ q.pc \in {"served", "waiting"}
        /\ IF result = "ok"
           THEN /\ authorizationStates' = authorizationStates \cup {<<q.auth.from, q.auth.nonce>>}
                /\ balances' = Transfer(balances, q.auth.from, q.auth.to, q.auth.value)
                /\ UNCHANGED <<usedNonces, services, providerBalances, totalEarned,
                               totalClaimed, platformFeePercent, platformTreasury,
                               escrowOwner, paymentProcessed>>
           ELSE UNCHANGED chainVars
        /\ inflight' = [inflight EXCEPT ![r] =
              IF q.pc = "served" THEN [@ EXCEPT !.pc = "logged", !.result = result]
              ELSE [@ EXCEPT !.pc = "done", !.result = result,
                             !.status = IF result = "ok" THEN 200 ELSE 402]]
        /\ UNCHANGED <<now, dbVars, last>>

\* the exchange is over and forgotten
PremiumForget(r) ==
    /\ inflight[r].pc \in {"logged", "done"}
    /\ inflight' = [inflight EXCEPT ![r] = NoRequest]
    /\ UNCHANGED <<now, chainVars, dbVars, last>>

(***************************************************************************)
(* Specifications                                                           *)
(***************************************************************************)
InitCommon ==
    /\ now = 1
    /\ balances = [x \in Accounts |-> IF x \in Payers THEN InitialBalance ELSE 0]
    /\ authorizationStates = {}
    /\ usedNonces = {}
    /\ services = [k \in ServiceKeys |-> NoService]
    /\ providerBalances = [p \in Accounts |-> 0]
    /\ totalEarned = [p \in Accounts |-> 0]
    /\ totalClaimed = [p \in Accounts |-> 0]
    /\ platformTreasury = TREASURY
    /\ paymentProcessed = {}
    /\ dbServices = [s \in ServiceIds |-> NoDbService]
    /\ accessLog = <<>>
    /\ totalEarnings = [p \in Providers |-> 0]
    /\ claimedAmount = [p \in Providers |-> 0]
    /\ last = NoOp
    /\ inflight = [r \in RequestIds |-> NoRequest]

\* the contracts as constructed: the deployer owns the escrow
Init ==
    /\ InitCommon
    /\ platformFeePercent = 5
    /\ escrowOwner = RELAYER

\* the deployment after its wiring step: Escrow.owner = PaymentProcessor
InitWired ==
    /\ InitCommon
    /\ platformFeePercent \in {0, 5, 20}
    /\ escrowOwner = PAYMENT_PROCESSOR_ADDRESS

\* nothing is in flight: the last receipt or response has been handed over
Idle == last = NoOp

\* the receipt or response of the last operation is handed to its caller
Deliver ==
    /\ ~Idle
    /\ last' = NoOp
    /\ UNCHANGED <<inflight, now, chainVars, dbVars>>

\* the contracts, called directly
Next ==
    \/ Deliver
    \/ Idle /\ Tick
    \/ Idle /\ \E c \in Callers, sid \in ServiceIds, price \in {0, UNIT} :
                    RegisterService(c, sid, ProviderOf(sid), price)
    \/ Idle /\ \E c \in Callers, sid \in ServiceIds, b \in BOOLEAN : SetActive(c, sid, b)
    \/ Idle /\ \E sid \in ServiceIds, a \in Auths : ProcessPayment(RELAYER, sid, a)
    \/ Idle /\ \E a \in {x \in Auths : x.to = ESCROW_ADDRESS} :
                    ReceiveWithAuthorization(RELAYER, a)
    \/ Idle /\ \E c \in Callers, p \in {"P1"}, amt \in {0, 5 * UNIT} :
                    ReceivePayment(c, p, amt)
    \/ Idle /\ \E c \in Claimants : Claim(c)
    \/ Idle /\ \E c \in Callers, p \in Providers, amt \in {0, 4 * UNIT} :
                    Withdraw(c, p, amt)
    \/ Idle /\ \E c \in Callers, f \in FeePercents : SetPlatformFee(c, f)
    \/ Idle /\ \E c \in Callers : TransferOwnership(c)

\* the gateway's HTTP surface
NextGateway ==
    \/ Deliver
    \/ Idle /\ Tick
    \/ Idle /\ \E sid \in ServiceIds, price \in {0, 1} : PostServices(sid, price, TypeOf(sid))
    \/ Idle /\ \E sid \in ServiceIds : DeleteService(sid)
    \/ Idle /\ \E sid \in ServiceIds, h \in {"none", "json", "tunnel"}, a \in Auths \cup {NoAuth} :
                    Gateway(sid, h, a)
    \/ Idle /\ \E sid \in ServiceIds, d \in BOOLEAN : AgentServices(sid, d)
    \/ Idle /\ \E sid \in ServiceIds, w \in Payers, a \in Auths : AgentExecute(sid, w, a)
    \/ Idle /\ \E sid \in ServiceIds \cup ServiceKeys, p \in Providers, amt \in {1},
                  a \in Auths : VerifyPayment(sid, p, amt, encodeTunnel(a))

\* agent/execute requests handled at the same time
NextConcurrent ==
    \/ Deliver
    \/ Idle /\ Tick
    \/ Idle /\ \E sid \in ServiceIds : PostServices(sid, 1, TypeOf(sid))
    \/ \E r \in RequestIds, sid \in ServiceIds, a \in PayableAuths :
           ExecuteVerify(r, sid, a.from, a)
    \/ \E r \in RequestIds, accepted \in BOOLEAN : ExecuteSubmit(r, accepted)
    \/ \E r \in RequestIds : ExecuteMine(r)
    \/ \E r \in RequestIds, logged \in BOOLEAN : ExecuteRespond(r, logged)

Spec == Init /\ [][Next]_vars

SpecWired == InitWired /\ [][Next]_vars

SpecGateway == InitWired /\ [][NextGateway]_vars

SpecConcurrent == InitWired /\ [][NextConcurrent]_vars

\* agent/execute requests handled at the same time, with the relayer account nonce
\* of each transaction; the node mines the transactions of an account in nonce order
NextNonce ==
    \/ Idle /\ \E sid \in ServiceIds : PostServices(sid, 1, TypeOf(sid))
    \/ Deliver
    \/ Idle /\ Tick
    \/ \E r \in RequestIds, sid \in ServiceIds, a \in PayableAuths :
           ExecuteVerify(r, sid, a.from, a)
    \/ \E r \in RequestIds : ExecutePopulate(r)
    \/ \E r \in RequestIds : ExecuteBroadcast(r)
    \/ \E r \in RequestIds : inflight[r].relayerNonce = <<MinedCount>> /\ ExecuteMine(r)
    \/ \E r \in RequestIds, logged \in BOOLEAN : ExecuteRespond(r, logged)

SpecNonce == InitWired /\ [][NextNonce]_vars

\* the steps of request r that the server itself takes: each await resumes once
\* what it waits for is there
HandlerStep(r) ==
    \/ ExecutePopulate(r)
    \/ ExecuteBroadcast(r)
    \/ \E logged \in BOOLEAN : ExecuteRespond(r, logged)

\* requests for service s1 handled at the same time; whether and when the chain
\* mines a transaction is not up to the server
NextWait ==
    \/ Idle /\ PostServices("s1", 1, TypeOf("s1"))
    \/ Deliver
    \/ Idle /\ Tick
    \/ \E r \in RequestIds, a \in GoodAuths : ExecuteVerify(r, "s1", a.from, a)
    \/ \E r \in RequestIds : HandlerStep(r)
    \/ \E r \in RequestIds : inflight[r].relayerNonce = <<MinedCount>> /\ ExecuteMine(r)

SpecWait ==
    /\ InitWired
    /\ [][NextWait]_vars
    /\ \A r \in RequestIds : WF_vars(HandlerStep(r))

\* the example server, started with or without optimistic settlement
NextOptimistic ==
    \/ Tick
    \/ \E r \in RequestIds, a \in PremiumAuths, o \in OptimisticSettings : PremiumSend(r, a, o)
    \/ \E r \in RequestIds : PremiumMine(r)
    \/ \E r \in RequestIds : PremiumForget(r)

SpecOptimistic == InitWired /\ [][NextOptimistic]_vars

\* relayer.settle called with and without a service id, by relayers with and
\* without a processor address
NextSettle ==
    \/ Deliver
    \/ Idle /\ Tick
    \/ Idle /\ \E sid \in ServiceIds : PostServices(sid, 1, TypeOf(sid))
    \/ Idle /\ \E p \in ProcessorAddresses, sid \in {<<>>, <<Keccak("s1")>>},
                  e \in {<<>>, <<Keccak("s2")>>}, a \in Auths :
                  Settle(p, sid, e, a)

SpecSettle == InitWired /\ [][NextSettle]_vars

\* claims handled at the same time, while payments settle and providers claim
NextClaim ==
    \/ Deliver
    \/ Idle /\ \E sid \in ServiceIds : PostServices(sid, 1, TypeOf(sid))
    \/ Idle /\ \E a \in { x \in GoodAuths : x.from = "A" \/ x.nonce = "n2" } :
                    ProcessPayment(RELAYER, "s1", a)
    \/ Idle /\ \E c \in Providers : Claim(c)
    \/ Idle /\ \E w \in Providers : GetRevenueWallet(w)
    \/ \E r \in RequestIds, w \in Providers, amt \in ClaimAmounts : ClaimCheck(r, w, amt)
    \/ Idle /\ \E r \in RequestIds, accepted \in BOOLEAN : ClaimWithdraw(r, accepted)
    \/ \E r \in RequestIds : ClaimAnswered(r)

SpecClaim == InitWired /\ [][NextClaim]_vars

\* the registry called directly, with payments priced by it
NextRegistry ==
    \/ Deliver
    \/ Idle /\ \E c \in Callers, sid \in ServiceIds, p \in Providers \cup {ZERO},
                  price \in {0, UNIT} : RegisterService(c, sid, p, price)
    \/ Idle /\ \E c \in Callers, sid \in ServiceIds, newPrice \in {0, UNIT, 2 * UNIT} :
                    UpdatePrice(c, sid, newPrice)
    \/ Idle /\ \E c \in Callers, sid \in ServiceIds, b \in BOOLEAN : SetActive(c, sid, b)
    \/ Idle /\ \E sid \in ServiceIds, a \in { x \in GoodAuths : x.from = "A" } :
                    ProcessPayment(RELAYER, sid, a)

SpecRegistry == InitWired /\ [][NextRegistry]_vars

\* the catalog: services are created, edited and removed, on the chain and in the
\* database, and the gateway quotes their price
NextCatalog ==
    \/ Deliver
    \/ Idle /\ \E sid \in ServiceIds, price \in {0, 1} : PostServices(sid, price, TypeOf(sid))
    \/ Idle /\ \E sid \in ServiceIds, body \in PatchBodies : PatchService(sid, body)
    \/ Idle /\ \E sid \in ServiceIds : DeleteService(sid)
    \/ Idle /\ \E c \in Callers, sid \in ServiceIds, newPrice \in {0, 2 * UNIT} :
                    UpdatePrice(c, sid, newPrice)
    \/ Idle /\ \E sid \in ServiceIds : Gateway(sid, "none", NoAuth)

SpecCatalog == InitWired /\ [][NextCatalog]_vars

\* the revenue views, while payments settle by both paid routes and a provider claims
NextRevenue ==
    \/ Deliver
    \/ Idle /\ \E sid \in ServiceIds : PostServices(sid, 1, TypeOf(sid))
    \/ Idle /\ \E sid \in ServiceIds, a \in { x \in GoodAuths : x.from = "A" } :
                    AgentExecute(sid, a.from, a)
    \/ Idle /\ \E sid \in ServiceIds, a \in { x \in GoodAuths : x.nonce = "n2" } :
                    VerifyPayment(Keccak(sid), ProviderOf(sid), 1, encodeTunnel(a))
    \/ \E w \in Providers, amt \in ClaimAmounts : ClaimCheck("r1", w, amt)
    \/ Idle /\ ClaimWithdraw("r1", TRUE)
    \/ ClaimAnswered("r1")
    \/ Idle /\ \E w \in Providers : GetRevenueWallet(w)
    \/ Idle /\ \E p \in Providers : GetRevenueProvider(p)

SpecRevenue == InitWired /\ [][NextRevenue]_vars

\* the gateway's front door: rows of every type, listed and removed, are asked
\* for with and without a payment header
NextLookup ==
    \/ Deliver
    \/ Idle /\ Tick
    \/ Idle /\ \E sid \in ServiceIds, type \in {"API", "HOSTED", "PROXY"} :
                    PostServices(sid, 1, type)
    \/ Idle /\ \E sid \in ServiceIds : DeleteService(sid)
    \/ Idle /\ \E sid \in ServiceIds, h \in {"none", "json", "tunnel"},
                  a \in GoodAuths \cup {NoAuth} : Gateway(sid, h, a)

SpecLookup == InitWired /\ [][NextLookup]_vars

\* /api/verify-payment with every shape of paymentSignature
NextCodec ==
    \/ Deliver
    \/ Idle /\ Tick
    \/ Idle /\ \E sid \in ServiceIds : PostServices(sid, 1, TypeOf(sid))
    \/ Idle /\ \E sid \in ServiceIds, token \in Tokens :
                    VerifyPayment(Keccak(sid), ProviderOf(sid), 1, token)

SpecCodec == InitWired /\ [][NextCodec]_vars

TypeOK ==
    /\ now \in 1..MaxTime
    /\ \A x \in Accounts : balances[x] >= 0

(***************************************************************************)
(* Properties of the contracts                                              *)
(***************************************************************************)
\* the (payer, nonce) pairs of the PaymentProcessed events emitted so far
Settled == { <<e.payer, e.nonce>> : e \in paymentProcessed }

RECURSIVE SumOver(_, _)
SumOver(f, S) == IF S = {} THEN 0
                 ELSE LET x == CHOOSE y \in S : TRUE IN f[x] + SumOver(f, S \ {x})

\* C1: once processPayment has succeeded for a payer F and nonce n, every later
\* processPayment with the same (F, n) is rejected with "Nonce already used" and
\* leaves usedNonces, every token balance, providerBalances, totalEarned and the
\* treasury balance as they were.
C1_ReplayRejected ==
    [][ (last'.op = "processPayment" /\ <<last'.auth.from, last'.auth.nonce>> \in Settled)
          => /\ last'.result = "Nonce already used"
             /\ UNCHANGED <<usedNonces, balances, providerBalances, totalEarned,
                            totalClaimed, authorizationStates, paymentProcessed>> ]_vars

\* a replay of A's settled authorization was rejected, after B paid too and P1
\* took money out in between
C1_Witness ==
    /\ last.op = "processPayment"
    /\ last.result = "Nonce already used"
    /\ last.auth \in GoodAuths
    /\ last.auth.from = "A"
    /\ <<"A", last.auth.nonce>> \in Settled
    /\ \E e \in paymentProcessed : e.payer = "B"
    /\ totalClaimed["P1"] > 0

\* C2: processPayment is all-or-nothing. When it succeeds for value v on service S,
\* the payer's balance falls by v, the treasury gains fee = floor(v * pct / 100),
\* providerBalances and totalEarned of S's provider each grow by v - fee, and the
\* nonce becomes used; when it reverts, for whatever reason, the chain state is
\* exactly what it was, the nonce mark included.
C2_AllOrNothing ==
    [][ last'.op = "processPayment" =>
          LET a == last'.auth
              provider == services[Keccak(last'.sid)].provider
              fee == (a.value * platformFeePercent) \div 100
          IN  IF last'.result = "ok"
              THEN /\ balances'[a.from] = balances[a.from] - a.value
                   /\ balances'[platformTreasury] = balances[platformTreasury] + fee
                   /\ providerBalances'[provider] = providerBalances[provider] + (a.value - fee)
                   /\ totalEarned'[provider] = totalEarned[provider] + (a.value - fee)
                   /\ a.nonce \notin usedNonces
                   /\ a.nonce \in usedNonces'
              ELSE UNCHANGED chainVars ]_vars

\* a payment whose fee is rounded down went through: 101 at 5% pays 5 to the
\* treasury and credits 96
C2_Witness ==
    /\ last.op = "processPayment"
    /\ last.result = "ok"
    /\ (last.auth.value * platformFeePercent) % 100 # 0
    /\ balances[platformTreasury] > 0
    /\ providerBalances[services[Keccak(last.sid)].provider] > 0

\* C3: a receivePayment(provider, payer, amount) with amount > 0 that goes through
\* sends exactly fee = floor(amount * pct / 100) to the treasury and adds exactly
\* share = amount - fee to providerBalances[provider] and totalEarned[provider],
\* with fee + share = amount, and leaves every other provider's ledger alone.
C3_FeeSplit ==
    [][ (last'.op \in {"receivePayment", "processPayment"} /\ last'.result = "ok") =>
          LET direct == last'.op = "receivePayment"
              amount == IF direct THEN last'.amount ELSE last'.auth.value
              provider == IF direct THEN last'.payTo
                          ELSE services[Keccak(last'.sid)].provider
              received == IF direct THEN 0 ELSE amount
              fee == (amount * platformFeePercent) \div 100
              share == amount - fee
          IN  /\ amount > 0
              /\ fee + share = amount
              /\ fee * 100 <= amount * platformFeePercent
              /\ amount * platformFeePercent < (fee + 1) * 100
              /\ balances'[platformTreasury] = balances[platformTreasury] + fee
              /\ balances'[ESCROW_ADDRESS] = balances[ESCROW_ADDRESS] + received - fee
              /\ providerBalances' = [providerBalances EXCEPT ![provider] = @ + share]
              /\ totalEarned' = [totalEarned EXCEPT ![provider] = @ + share] ]_vars

\* the owner credited 5 * UNIT = 100 at 5%: 95 to the provider, 5 to the treasury
C3_Witness ==
    /\ last.op = "receivePayment"
    /\ last.result = "ok"
    /\ last.amount = 5 * UNIT
    /\ platformFeePercent = 5
    /\ providerBalances[last.payTo] = 5 * UNIT - (5 * UNIT * 5) \div 100
    /\ totalEarned[last.payTo] = providerBalances[last.payTo]
    /\ balances[platformTreasury] = (5 * UNIT * 5) \div 100

\* C4: with Escrow.owner = PaymentProcessor, the provider balances the escrow owes
\* never add up to more than the tokens it holds, whatever sequence of payments,
\* claims, withdrawals, fee changes and direct transfers to the escrow happened.
C4_Solvent == SumOver(providerBalances, Accounts) <= balances[ESCROW_ADDRESS]

\* the escrow holds more than it owes after a payment, a direct transfer to it and
\* a withdrawal
C4_Witness ==
    /\ escrowOwner = PAYMENT_PROCESSOR_ADDRESS
    /\ paymentProcessed # {}
    /\ totalClaimed["P1"] > 0
    /\ SumOver(providerBalances, Accounts) > 0
    /\ SumOver(providerBalances, Accounts) < balances[ESCROW_ADDRESS]

\* C5: for every provider p, totalEarned[p] >= totalClaimed[p] and
\* providerBalances[p] = totalEarned[p] - totalClaimed[p].
C5_LedgerIdentity ==
    \A p \in Accounts :
        /\ totalEarned[p] >= totalClaimed[p]
        /\ providerBalances[p] = totalEarned[p] - totalClaimed[p]

\* a provider withdrew a part of its earnings and is still owed the rest
C5_Witness ==
    /\ last.op = "withdraw"
    /\ last.result = "ok"
    /\ totalClaimed[last.payTo] > 0
    /\ providerBalances[last.payTo] > 0
    /\ totalEarned[last.payTo] > totalClaimed[last.payTo]

(***************************************************************************)
(* Properties of the gateway's HTTP surface                                 *)
(***************************************************************************)
\* the Service row a request names, by its id or by the hash of its id
DbIdOf(x) == IF x \in ServiceIds THEN x ELSE CHOOSE s \in ServiceIds : Keccak(s) = x

\* the last exchange was a request carrying a payment signature
PaidRequest ==
    /\ last.op \in {"gateway", "agent/execute", "verify-payment"}
    /\ last.auth # NoAuth

\* the service the last request names is listed and active
ServiceLive ==
    /\ last.sid \in ServiceIds \cup ServiceKeys
    /\ dbServices[DbIdOf(last.sid)].exists
    /\ dbServices[DbIdOf(last.sid)].isActive

\* the last request got as far as RelayerFacilitator.verify
VerifierRan ==
    /\ last.op \in {"agent/execute", "verify-payment"}
    /\ last.status \in {200, 402, 500}

InsideWindow(a, t) == a.validAfter < t /\ t < a.validBefore

\* C6: in every 402 challenge and every catalog paymentRequirements block the
\* gateway emits, payTo is the escrow address.
C6_PayToIsEscrow ==
    (/\ last.op \in {"gateway", "GET /agent/services", "GET /agent/services/{id}"}
     /\ last.payTo # ZERO)
        => last.payTo = ESCROW_ADDRESS

\* C7: on every paid entry point an authorization whose `to` is not the escrow is
\* answered 400 and no chain transaction is submitted for it.
C7_WrongDestinationRejected ==
    (PaidRequest /\ ServiceLive /\ last.auth.to # ESCROW_ADDRESS)
        => (last.status = 400 /\ ~last.submitted)

\* C8: on every paid entry point an authorization whose value is below the service
\* price is answered 400 with no chain submission, and one whose value equals the
\* price is not turned away for its value.
C8_UnderpaymentRejected ==
    (PaidRequest /\ ServiceLive) =>
        LET price == ToBaseUnits(dbServices[DbIdOf(last.sid)].price)
        IN  /\ last.auth.value < price => (last.status = 400 /\ ~last.submitted)
            /\ last.auth.value = price => last.status # 400

\* C9: the verifier accepts an authorization at time now iff
\* validAfter < now < validBefore, both bounds strict.
C9_WindowStrict ==
    VerifierRan => ((last.status # 402) <=> InsideWindow(last.auth, now))

\* C10: the verifier calls an authorization valid only if the signer recovered from
\* the signature over its fields is `from`: any other is rejected before a chain
\* transaction is submitted; and a well-formed authorization inside its window is
\* called valid.
C10_BadSignatureRejected ==
    VerifierRan =>
        LET a == last.auth
            signed == SignatureValid(a.from, a.to, a.value, a.validAfter, a.validBefore,
                                     a.nonce, a.sig)
        IN  /\ ~signed => (last.status = 402 /\ ~last.submitted)
            /\ (signed /\ InsideWindow(a, now)) => last.status # 402

\* the access-log rows written for the settlement of authorization a
RowsOf(a) == { i \in DOMAIN accessLog : accessLog[i].txHash = TxHash(a) }

\* C11: re-submitting, within the validity window, an authorization whose first
\* submission settled (and was logged) is answered 402 "Nonce already used", not a
\* 5xx and not a 200, and writes no new access-log row.
C11_ReplayAnswered402 ==
    [][ (/\ last'.op = "agent/execute"
         /\ dbServices[last'.sid].exists /\ dbServices[last'.sid].isActive
         /\ RowsOf(last'.auth) # {}
         /\ InsideWindow(last'.auth, now))
          => /\ last'.status = 402
             /\ last'.result = "Nonce already used"
             /\ accessLog' = accessLog ]_vars

\* C13: an access-log row is written only for a settlement that succeeded, and a
\* 200 response has exactly one row carrying its transaction hash: a request that
\* ends in an error status writes no row, and no 200 is returned whose row is
\* missing.
C13_RowIff200 ==
    [][ last'.op \in {"gateway", "agent/execute"} =>
          /\ accessLog' # accessLog => paymentProcessed' # paymentProcessed
          /\ last'.status # 200 => accessLog' = accessLog
          /\ last'.status = 200 =>
                /\ Len(accessLog') = Len(accessLog) + 1
                /\ Cardinality({ i \in DOMAIN accessLog' :
                                   accessLog'[i].txHash = TxHash(last'.auth) }) = 1 ]_vars

(***************************************************************************)
(* Properties of concurrent requests                                        *)
(***************************************************************************)
\* the PaymentProcessed events of payer f with nonce n
EventsOf(f, n) == { e \in paymentProcessed : e.payer = f /\ e.nonce = n }

\* the access-log rows written for a settlement of an authorization of f with nonce n
RowsOfNonce(f, n) ==
    { i \in DOMAIN accessLog :
        \E a \in Auths : a.from = f /\ a.nonce = n /\ accessLog[i].txHash = TxHash(a) }

\* the requests that carried an authorization of f with nonce n and were answered 200
AnsweredOk(f, n) ==
    { r \in RequestIds : /\ inflight[r].auth.from = f
                         /\ inflight[r].auth.nonce = n
                         /\ inflight[r].status = 200 }

RECURSIVE SumAmounts(_)
SumAmounts(E) == IF E = {} THEN 0
                 ELSE LET e == CHOOSE x \in E : TRUE IN e.amount + SumAmounts(E \ {e})

\* C12: when requests carrying the same authorization (same payer, same nonce) are
\* handled at the same time, then under every interleaving of their verify, submit
\* and confirm steps at most one of them settles on-chain, the payer is debited at
\* most once, and at most one of them gets a 200 and an access-log row.
C12_AtMostOnce ==
    /\ \A f \in Payers, n \in {k[2] : k \in AuthKeys} :
          /\ Cardinality(EventsOf(f, n)) <= 1
          /\ Cardinality(AnsweredOk(f, n)) <= 1
          /\ Cardinality(RowsOfNonce(f, n)) <= 1
    /\ \A f \in Payers :
          InitialBalance - balances[f]
            = SumAmounts({ e \in paymentProcessed : e.payer = f })

\* two requests carried the same authorization, whatever the order of their steps:
\* one was answered 200 and the other 500 for the used nonce
C12_Witness ==
    /\ inflight["r1"].auth = inflight["r2"].auth
    /\ inflight["r1"].auth \in GoodAuths
    /\ inflight["r1"].status = 200
    /\ inflight["r2"].status = 500
    /\ inflight["r2"].result = "Nonce already used"
    /\ Cardinality(RowsOf(inflight["r1"].auth)) = 1
    /\ balances[inflight["r1"].auth.from] = InitialBalance - inflight["r1"].auth.value

(***************************************************************************)
(* Properties of the answers to paid requests                               *)
(***************************************************************************)
UpstreamErrors == {"Service returned error", "Could not reach service endpoint"}

GatewayServes ==
    /\ last.op = "gateway"
    /\ last.header # "none"
    /\ dbServices[last.sid].exists
    /\ dbServices[last.sid].isActive
    /\ dbServices[last.sid].type # "API"

\* C15: on /gateway/{id} with a payment header a verification failure is answered
\* 402 and a failure of the settlement transaction is answered 5xx, never 402.
C15_FailureClassesSeparated ==
    GatewayServes =>
        /\ (~last.submitted /\ last.status # 200) => last.status = 402
        /\ (last.submitted /\ last.status # 200) => last.status \in 500..599

\* C16: an active HOSTED service, a tunnel-mode header with a correctly signed,
\* in-window, never-used authorization to the escrow for the price: the answer is
\* 200 with the stored content and the transaction hash, the provider's claimable
\* balance grows by the price less the fee and the treasury's balance by the fee.
C16_HappyPath ==
    [][ (/\ last'.op = "gateway"
         /\ last'.header = "tunnel"
         /\ dbServices[last'.sid].exists /\ dbServices[last'.sid].isActive
         /\ dbServices[last'.sid].type = "HOSTED"
         /\ last'.auth \in GoodAuths
         /\ last'.auth.value = ToBaseUnits(dbServices[last'.sid].price)
         /\ InsideWindow(last'.auth, now)
         /\ last'.auth.nonce \notin usedNonces
         /\ <<last'.auth.from, last'.auth.nonce>> \notin authorizationStates)
          => LET p == last'.auth.value
                 fee == PlatformFee(p, platformFeePercent)
                 provider == dbServices[last'.sid].walletAddress
             IN  /\ last'.status = 200
                 /\ last'.response = "content"
                 /\ last'.txHash = TxHash(last'.auth)
                 /\ providerBalances'[provider] = providerBalances[provider] + p - fee
                 /\ balances'[platformTreasury] = balances[platformTreasury] + fee ]_vars

RefusedBy(before, after) ==
    { r \in RequestIds : before[r].pc # "done" /\ after[r].pc = "done" /\ after[r].status # 200 }

\* C18: a withdraw triggered by POST /claim moves exactly the amount from the
\* provider's escrow balance to the provider's tokens; a claim that is refused
\* leaves the balances as they were, and one for more than the on-chain balance is
\* refused; GET /revenue/wallet reports the on-chain balance, so 0 once it is all
\* claimed; whatever the interleaving, no provider is paid more than it earned.
C18_WithdrawExact ==
    [][ /\ (last = NoOp /\ last'.op = "withdraw" /\ last'.result = "ok") =>
              LET p == last'.payTo
                  amt == last'.amount
              IN  /\ providerBalances'[p] = providerBalances[p] - amt
                  /\ balances'[p] = balances[p] + amt
                  /\ balances'[ESCROW_ADDRESS] = balances[ESCROW_ADDRESS] - amt
        /\ \A r \in RequestIds :
              /\ r \in RefusedBy(inflight, inflight') =>
                    providerBalances' = providerBalances /\ balances' = balances
              /\ (inflight[r].pc # "done" /\ inflight'[r].pc = "done"
                    /\ inflight'[r].amount > providerBalances[inflight'[r].wallet])
                       => r \in RefusedBy(inflight, inflight')
        /\ (last = NoOp /\ last'.op = "GET /revenue/wallet" /\ last'.status = 200) =>
              /\ last'.amount = providerBalances[last'.payTo]
              /\ totalClaimed[last'.payTo] = totalEarned[last'.payTo] => last'.amount = 0
        /\ \A p \in Providers :
              /\ totalClaimed'[p] <= totalEarned'[p]
              /\ providerBalances'[p] >= 0 ]_vars

\* two claims for the same provider passed the balance check together, one was
\* paid in full and the other refused; the balance is then reported as 0
C18_Witness ==
    /\ last.op = "GET /revenue/wallet"
    /\ last.status = 200
    /\ last.amount = 0
    /\ totalClaimed[last.payTo] > 0
    /\ \E r \in RequestIds :
          /\ inflight[r].status = 200 /\ inflight[r].wallet = last.payTo
          /\ inflight[r].amount = totalClaimed[last.payTo]
    /\ \E r \in RequestIds :
          /\ inflight[r].status = 500 /\ inflight[r].wallet = last.payTo
          /\ inflight[r].result = "Claim failed"

\* the callers Escrow.receivePayment and Escrow.withdraw let through
MayReceivePayment(sender) == sender = escrowOwner
MayWithdraw(sender) == sender = escrowOwner \/ sender = RELAYER

\* C19: receivePayment succeeds only for the escrow's owner and withdraw only for
\* the owner or the relayer; a call by anyone else reverts and leaves the balances
\* unchanged; under the deployment wiring a provider's balance grows only in a
\* processPayment.
C19_EscrowAccess ==
    [][ last = NoOp =>
          /\ (last'.op = "receivePayment" /\ last'.result = "ok")
                => MayReceivePayment(last'.sender)
          /\ (last'.op = "withdraw" /\ last'.result = "ok") => MayWithdraw(last'.sender)
          /\ (\/ last'.op = "receivePayment" /\ ~MayReceivePayment(last'.sender)
              \/ last'.op = "withdraw" /\ ~MayWithdraw(last'.sender))
                => /\ last'.result # "ok"
                   /\ <<balances, providerBalances, totalEarned, totalClaimed>>'
                         = <<balances, providerBalances, totalEarned, totalClaimed>>
          /\ (\E p \in Accounts : providerBalances'[p] > providerBalances[p])
                => /\ last'.op = "processPayment"
                   /\ paymentProcessed' # paymentProcessed ]_vars

\* the relayer, which is not the owner once the escrow is wired, called
\* receivePayment for a provider that a processPayment had credited
C19_Witness ==
    /\ last.op = "receivePayment"
    /\ last.sender = RELAYER
    /\ last.amount > 0
    /\ last.result = "OwnableUnauthorizedAccount"
    /\ providerBalances[last.payTo] > 0
    /\ paymentProcessed # {}

RegistryUpdates == {"updatePrice", "deactivateService", "reactivateService"}

\* the callers the registry lets change the service sid
MayUpdate(sender, sid) ==
    sender = services[Keccak(sid)].provider \/ sender = REGISTRY_OWNER

\* C20: registerService succeeds only for the registry's owner; updatePrice,
\* deactivateService and reactivateService succeed only for the service's provider
\* or the owner; a call by anyone else reverts and leaves the service record
\* unchanged.
C20_RegistryAccess ==
    [][ last = NoOp =>
          /\ (last'.op = "registerService" /\ last'.result = "ok")
                => last'.sender = REGISTRY_OWNER
          /\ (last'.op \in RegistryUpdates /\ last'.result = "ok")
                => MayUpdate(last'.sender, last'.sid)
          /\ (\/ last'.op = "registerService" /\ last'.sender # REGISTRY_OWNER
              \/ last'.op \in RegistryUpdates /\ ~MayUpdate(last'.sender, last'.sid))
                => /\ last'.result # "ok"
                   /\ services' = services ]_vars

\* P1 tried to change the price of P2's registered service and was turned away,
\* after it had changed the price of its own
C20_Witness ==
    /\ last.op = "updatePrice"
    /\ last.sender = "P1"
    /\ last.sid = "s2"
    /\ last.amount > 0
    /\ last.result = "Not authorized"
    /\ services[Keccak("s2")].provider = "P2"
    /\ services[Keccak("s1")].price = 2 * UNIT

(***************************************************************************)
(* Properties of the service records                                        *)
(***************************************************************************)
\* the registry's record of the service that the last transaction names
Named(svc) == svc[Keccak(last.sid)]

\* C21: a registered service keeps its provider whatever the registry is asked: a
\* second registerService for the id reverts and changes nothing, and updatePrice,
\* deactivateService and reactivateService change the price or the flag only.
C21_ProviderImmutable ==
    [][ /\ \A k \in ServiceKeys :
              services[k].provider # ZERO => services'[k].provider = services[k].provider
        /\ (/\ last = NoOp
            /\ last'.op = "registerService"
            /\ services[Keccak(last'.sid)].provider # ZERO)
              => last'.result # "ok" /\ services' = services
        /\ (last = NoOp /\ last'.op = "updatePrice")
              => services' = [services EXCEPT ![Keccak(last'.sid)].price =
                                                 services'[Keccak(last'.sid)].price]
        /\ (last = NoOp /\ last'.op \in {"deactivateService", "reactivateService"})
              => services' = [services EXCEPT ![Keccak(last'.sid)].isActive =
                                                 services'[Keccak(last'.sid)].isActive] ]_vars

\* the owner tried to register P1's service again, for P2 this time
C21_Witness ==
    /\ last.op = "registerService"
    /\ last.sender = REGISTRY_OWNER
    /\ last.sid = "s1"
    /\ last.payTo = "P2"
    /\ last.amount > 0
    /\ last.result = "Service exists"
    /\ Named(services).provider = "P1"

\* C22: every service record, in the registry and in the database, has a price
\* above zero, whatever was created, registered, repriced or patched.
C22_PricePositive ==
    /\ \A k \in ServiceKeys : services[k].provider # ZERO => services[k].price > 0
    /\ \A sid \in ServiceIds : dbServices[sid].exists => dbServices[sid].price > 0

(***************************************************************************)
(* Properties of the revenue views                                          *)
(***************************************************************************)
\* C23: the claimable balance that GET /revenue/wallet and GET /revenue/{id}
\* answer with is escrow.providerBalances of that wallet at the time of the
\* request, and is never worked out from the database mirror.
C23_ClaimableFromChain ==
    (/\ last.op \in {"GET /revenue/wallet", "GET /revenue/{providerId}"}
     /\ last.status = 200)
        => last.amount = providerBalances[last.payTo]

(***************************************************************************)
(* Properties of the gateway's handling of a request                        *)
(***************************************************************************)
\* C24: /gateway/{id} answers 404 for a missing service, 410 for an inactive one
\* and 400 for one of the direct-API kind, before the payment header is read: no
\* transaction, access-log row or upstream call comes of such a request, valid
\* payment signature or not.
C24_RefusedBeforePayment ==
    [][ (last = NoOp /\ last'.op = "gateway") =>
          LET service == dbServices[last'.sid]
          IN  /\ ~service.exists => last'.status = 404
              /\ (service.exists /\ ~service.isActive) => last'.status = 410
              /\ (service.exists /\ service.isActive /\ service.type = "API")
                    => last'.status = 400
              /\ last'.status \in {404, 410, 400}
                    => /\ ~last'.submitted
                       /\ last'.txHash = NoTxHash
                       /\ last'.upstream = "none"
                       /\ chainVars' = chainVars
                       /\ accessLog' = accessLog ]_vars

\* a direct-API service was asked for with a valid payment signature in the header
C24_Witness ==
    /\ last.op = "gateway"
    /\ last.status = 400
    /\ last.header = "json"
    /\ last.auth \in GoodAuths
    /\ InsideWindow(last.auth, now)
    /\ dbServices[last.sid].type = "API"
    /\ dbServices[last.sid].isActive
    /\ usedNonces = {}

\* C25: the payer reported for a settled call, in the access-log row, in
\* payment.payer of the /agent/execute response and in X-402-Payer (last.sender
\* holds the address the route puts in both), is the `from` of the authorization
\* that was settled, whatever wallet address the body gives.
C25_PayerIsSigner ==
    /\ (last.op = "agent/execute" /\ last.status = 200) => last.sender = last.auth.from
    /\ \A i \in DOMAIN accessLog :
          \A a \in Auths : accessLog[i].txHash = TxHash(a) => accessLog[i].callerAddress = a.from

(***************************************************************************)
(* Properties of the payload codec                                          *)
(***************************************************************************)
\* the payload object inside the token of the last request, <<>> if there is none
TokenPayload == JsonParse(FromBase64(last.token))

\* C26: the signature worked on for the tunnel envelope of a tuple is that tuple;
\* with a base64 proof field the inner tuple is the one verified and settled, and
\* the envelope's own fields are used as the signature only when it has no proof.
C26_TunnelRoundTrip ==
    (last.op = "verify-payment" /\ TokenPayload # <<>>) =>
        /\ \A sig \in Auths : last.token = encodeTunnel(sig) => last.auth = sig
        /\ \A sig \in Auths :
              TokenPayload[1].proof = <<Base64(ToJson(sig))>> => last.auth = sig
        /\ TokenPayload[1].proof = <<>> => last.auth = TokenPayload[1].sig
        /\ (TokenPayload[1].proof # <<>> /\ TokenPayload[1].sig # NoAuth)
              => last.auth # TokenPayload[1].sig

(***************************************************************************)
(* Properties of the relayer account nonce                                  *)
(***************************************************************************)
\* the requests whose transaction holds a relayer nonce and has not been refused
HoldsNonce(r) ==
    /\ inflight[r].relayerNonce # <<>>
    /\ inflight[r].result # "nonce has already been used"

\* C27: the relayer account nonce is handed out by one allocator: under any
\* interleaving no two transactions being sent hold the same relayer nonce, and
\* the nonces handed out start at the value read at startup.
C27_RelayerNonceUnique ==
    /\ \A r \in RequestIds :
          inflight[r].relayerNonce # <<>> => inflight[r].relayerNonce[1] >= StartNonce
    /\ \A r, q \in RequestIds :
          (r # q /\ HoldsNonce(r) /\ HoldsNonce(q))
             => inflight[r].relayerNonce # inflight[q].relayerNonce

(***************************************************************************)
(* Properties of the confirmation wait                                      *)
(***************************************************************************)
\* request r is answered 200 in this step
Answers200(r) ==
    inflight[r].pc # "done" /\ inflight'[r].pc = "done" /\ inflight'[r].status = 200

\* the transaction of request r was mined and did not revert
MinedOk(r) ==
    /\ inflight[r].pc = "settled"
    /\ inflight[r].broadcast
    /\ inflight[r].result = "ok"
    /\ EventsOf(inflight[r].auth.from, inflight[r].auth.nonce) # {}

\* C28: settle returns success only after the transaction was mined successfully:
\* a 200 response or an access-log row is produced only in the step of a request
\* whose transaction has been mined without reverting, never for one that is still
\* pending, was refused by the node or reverted.
C28_SuccessOnlyAfterMined ==
    [][ /\ \A r \in RequestIds : Answers200(r) => MinedOk(r)
        /\ accessLog' # accessLog =>
              \E r \in RequestIds :
                 /\ Answers200(r) /\ MinedOk(r)
                 /\ accessLog'[Len(accessLog')].txHash = TxHash(inflight[r].auth) ]_vars

\* one request was answered 200 after its transaction was mined, while the
\* transaction of the other, carrying the same authorization, reverted: 500
C28_Witness ==
    /\ inflight["r1"].status = 200 /\ inflight["r1"].broadcast
    /\ inflight["r2"].status = 500 /\ inflight["r2"].broadcast
    /\ inflight["r2"].relayerNonce = <<StartNonce + 1>>
    /\ Len(accessLog) = 1

(***************************************************************************)
(* Properties of the call of the backing service                            *)
(***************************************************************************)
\* C29: the backing service is called only for a request whose own settlement has
\* succeeded, in the step that answers it, and once: a request refused at the
\* lookup, at verification, by the node or by a revert never reaches the endpoint,
\* and no request reaches it twice.
C29_UpstreamAfterSettlement ==
    [][ \A r \in RequestIds :
          /\ inflight'[r].upstreamCalls <= 1
          /\ inflight'[r].upstreamCalls # inflight[r].upstreamCalls =>
                /\ MinedOk(r)
                /\ inflight[r].upstreamCalls = 0
                /\ inflight'[r].status = 200
          /\ (inflight'[r].pc = "done" /\ inflight'[r].status # 200) =>
                inflight'[r].upstreamCalls = 0 ]_vars

\* both requests are answered: one paid and reached the endpoint once, the other's
\* transaction reverted and the endpoint was not called for it
C29_Witness ==
    /\ inflight["r1"].pc = "done" /\ inflight["r1"].upstreamCalls = 1
    /\ inflight["r2"].pc = "done" /\ inflight["r2"].status = 500
    /\ inflight["r2"].broadcast /\ inflight["r2"].upstreamCalls = 0

C31_NoncePerPayer ==
    [][ /\ usedNonces \subseteq usedNonces'
        /\ (last.op = "idle" /\ last'.op = "processPayment"
               /\ last'.result = "Nonce already used")
              => \E e \in paymentProcessed :
                    e.payer = last'.auth.from /\ e.nonce = last'.auth.nonce ]_vars

(***************************************************************************)
(* Properties of the database mirror                                        *)
(***************************************************************************)
\* the PaymentProcessed events emitted in this step
NewEvents == paymentProcessed' \ paymentProcessed

\* C32: a settlement that succeeded through a paid entry point (gateway,
\* agent/execute, verify-payment) appends exactly one access-log row and adds to
\* the mirrored earnings of the provider paid on-chain exactly its share of the
\* settled value, and changes no other provider's mirrored earnings.
C32_MirrorFollowsSettlement ==
    [][ (last'.op \in {"gateway", "agent/execute", "verify-payment"} /\ NewEvents # {}) =>
          \A e \in NewEvents :
             /\ Len(accessLog') = Len(accessLog) + 1
             /\ totalEarnings' =
                   [totalEarnings EXCEPT ![e.provider] =
                       @ + ProviderShare(e.amount, platformFeePercent)] ]_vars

\* C33: in the database mirror every provider's total earnings are at least its
\* claimed amount, after any sequence of settlements and claims.
C33_MirrorEarnedCoversClaimed ==
    \A p \in Providers : totalEarnings[p] >= claimedAmount[p]

(***************************************************************************)
(* Properties of the service key                                            *)
(***************************************************************************)
\* the failures of a settlement whose service key is not the registered one
KeyFailures == {"Service not found", "Settlement failed: invalid BytesLike value"}

\* C34: a settlement requested for service id X through gateway, agent/execute or
\* verify-payment carries keccak256(utf8(X)), the key POST /services registered X
\* under: once X is registered on-chain, no such request fails because the
\* service key is malformed or unknown.
C34_SettlementFindsService ==
    (/\ last.op \in {"gateway", "agent/execute", "verify-payment"}
     /\ last.sid \in ServiceIds
     /\ services[Keccak(last.sid)].provider # ZERO)
       => last.result \notin KeyFailures

(***************************************************************************)
(* Properties of the confirmation wait's end                                *)
(***************************************************************************)
\* C35: every settlement that was submitted reaches an outcome that is reported to
\* its caller, even when its transaction is never mined: the wait for the receipt
\* is bounded, so a request whose transaction is pending is eventually answered.
C35_SubmittedIsAnswered ==
    \A r \in RequestIds : (inflight[r].pc = "submitted") ~> (inflight[r].pc = "done")

(***************************************************************************)
(* Properties of optimistic settlement                                      *)
(***************************************************************************)
\* C36: with optimistic settlement a request is answered with success in the step
\* that sends its transaction, before it is mined, and the success stays: when the
\* transaction later reverts the outcome is only logged and the 200 already given
\* is kept.
C36_OptimisticSuccessKept ==
    [][ \A r \in RequestIds :
          /\ (inflight[r].pc = "idle" /\ inflight'[r].optimistic = "true")
                => /\ inflight'[r].pc = "served" /\ inflight'[r].status = 200
                   /\ chainVars' = chainVars
          /\ (inflight[r].pc = "idle" /\ inflight'[r].optimistic = "false")
                => (inflight'[r].pc = "waiting" /\ inflight'[r].status = 0)
          /\ (inflight[r].pc = "served" /\ inflight'[r].pc # "served")
                => (inflight'[r].pc = "logged" /\ inflight'[r].status = 200)
          /\ (inflight[r].pc = "waiting" /\ inflight'[r].pc = "done")
                => (inflight'[r].status = 200 <=> inflight'[r].result = "ok") ]_vars

\* the content was served to payer A, whose transaction then reverted as expired:
\* A has been answered 200 and has paid nothing
C36_Witness ==
    \E r \in RequestIds :
       /\ inflight[r].pc = "logged" /\ inflight[r].status = 200
       /\ inflight[r].result = "MockUSDC: authorization is expired"
       /\ inflight[r].auth.from = "A"
       /\ balances["A"] = InitialBalance

C38_ProbeFailureSwallowed ==
    [][ (last.op = "idle" /\ last'.op = "agent/execute") =>
          /\ ~(last'.status = 402 /\ last'.result = "Nonce already used")
          /\ (/\ last'.auth.nonce \in usedNonces
              /\ dbServices[last'.sid].exists /\ dbServices[last'.sid].isActive
              /\ DestinationOk(last'.auth) /\ AmountOk(last'.sid, last'.auth)
              /\ ~NotYetValid(last'.auth, now) /\ ~Expired(last'.auth, now))
                => /\ last'.status = 500
                   /\ last'.submitted
                   /\ last'.result = "Nonce already used"
                   /\ chainVars' = chainVars ]_vars

\* a replayed authorization went past verify and was refused by the chain
C38_Witness ==
    /\ last.op = "agent/execute" /\ last.status = 500 /\ last.submitted
    /\ last.result = "Nonce already used"
    /\ last.auth \in GoodAuths
    /\ <<last.auth.from, last.auth.nonce>> \in authorizationStates

(***************************************************************************)
(* Properties of the catalog and the registry together                      *)
(***************************************************************************)
\* the row of service sid and its on-chain entry agree on price and active flag
Agree(row, entry) ==
    row.exists => /\ entry.provider # ZERO
                  /\ entry.price = ToBaseUnits(row.price)
                  /\ entry.isActive = row.isActive

\* C39: POST /services, PATCH /services/{id} and DELETE /services/{id} keep the
\* database row of a service and its ServiceRegistry entry in agreement: after
\* each of them the price and the active flag of the row equal those on-chain,
\* and a row that exists has an on-chain registration.
C39_CatalogMatchesRegistry ==
    [][ (/\ last.op = "idle"
         /\ last'.op \in {"POST /services", "PATCH /services", "DELETE /services"}
         /\ Agree(dbServices[last'.sid], services[Keccak(last'.sid)]))
          => Agree(dbServices'[last'.sid], services'[Keccak(last'.sid)]) ]_vars

(***************************************************************************)
(* Properties of where the tokens go                                        *)
(***************************************************************************)
\* the accounts whose token balance grows in this step
Receivers == { x \in Accounts : balances'[x] > balances[x] }

\* the accounts whose escrow balance shrinks in this step
Debited == { p \in Accounts : providerBalances'[p] < providerBalances[p] }

\* C40: through the processor path tokens reach only the escrow and the treasury
\* (on processPayment, taken from the payer alone) and, on claim or withdraw, the
\* provider whose escrow balance is debited; withdraw(p, a) debits and pays no
\* provider other than p, whoever calls it.
C40_FundsDestinations ==
    [][ (last.op = "idle" /\ last'.op \in {"processPayment", "claim", "withdraw"}) =>
          /\ last'.op = "processPayment" =>
                /\ Receivers \subseteq {ESCROW_ADDRESS, platformTreasury}
                /\ \A x \in Accounts : balances'[x] < balances[x] => x = last'.auth.from
                /\ Debited = {}
          /\ last'.op \in {"claim", "withdraw"} =>
                /\ Receivers \subseteq Debited
                /\ Debited \subseteq {last'.payTo}
                /\ \A x \in Accounts : balances'[x] < balances[x] => x = ESCROW_ADDRESS
                /\ \A p \in Accounts \ {last'.payTo} :
                      providerBalances'[p] = providerBalances[p] /\ balances'[p] <= balances[p] ]_vars

\* the relayer withdrew for provider P1: the tokens went to P1 and not to the caller
C40_Witness ==
    /\ last.op = "withdraw" /\ last.result = "ok" /\ last.sender = RELAYER
    /\ last.payTo = "P1" /\ last.amount > 0
    /\ balances["P1"] = last.amount
    /\ balances[RELAYER] = 0
    /\ balances[platformTreasury] > 0

====
